---- MODULE Spec2Model ----
(***************************************************************************)
(* KaGen: the generator state machine (kagen/generators/generator.cpp),    *)
(* the chunk-count rules of the generator factory, the CSR / edge-list     *)
(* conversion it relies on, and the Generate entry point of                *)
(* kagen/facade.cpp run by the processes of one communicator.              *)
(***************************************************************************)
EXTENDS Integers, Sequences, FiniteSets, TLC

(***************************************************************************)
(* Bounds of the model.                                                    *)
(***************************************************************************)
\* global vertex ids are 0 .. NumVertices-1
NumVertices == 2
\* a generation hook emits at most MaxEdges local edges
MaxEdges == 2
\* the converter is applied to edge lists of at most MaxConvEdges edges
MaxConvEdges == 3
\* chunk counts k range over 0 .. MaxK, process counts over 1 .. MaxSize
MaxK == 26
MaxSize == 12
\* the processes of the communicator are 0 .. NumPE-1
NumPE == 2
\* the facade is called with a chunk count in 0 .. MaxFacadeK
MaxFacadeK == 4
\* FilterDuplicateEdges is applied to edge lists of at most MaxFilterEdges edges
MaxFilterEdges == 3
\* a library object gets at most MaxCalls generation calls, and chunk counts
\* in 0 .. MaxChunks through its setter
MaxCalls == 2
MaxChunks == 2
\* chkgraph reads graphs of 0 .. MaxN vertices
MaxN == 7
\* REDISTRIBUTE_GRAPH runs on graphs of 1 .. MaxPostN vertices, each process
\* holding at most MaxPostEdges generated edges
MaxPostN == 3
MaxPostEdges == 1

VARIABLES
    gen,        \* the Generator object: its kind and its member variables
    ret,        \* what the last Generator operation returned (a Graph, or NoGraph)
    produced,   \* what the native generation hook emits for this generator's
                \* configuration, seed and rank (the same in every Generate)
    phase,      \* lifecycle position: RESET, GENERATED, FINALIZED, REFINALIZED, TAKEN, RETAKEN, OTHER
    calledIn    \* the lifecycle position the last operation was called in, whether
                \* some buffer was non-empty then, and at the operation before it

VARIABLES
    conv,       \* one application of the converter: its input, its results
    chunk,      \* one call of a chunk-count rule of the GeneratorFactory
    config,     \* the configuration every process hands to the facade's Generate
    proc        \* per rank: where the process is in the facade's Generate

genVars == <<gen, ret, produced, phase, calledIn>>
convVars == <<conv>>
chunkVars == <<chunk>>
facadeVars == <<config, proc>>

VARIABLES
    filt,       \* a generator on which FilterDuplicateEdges is called
    kagen,      \* a KaGen object of library/kagen.cpp and the calls made on it
    lib,        \* a KaGen object of library/kagen_library.cpp and the calls made on it
    post,       \* one run of the REDISTRIBUTE_GRAPH postprocessing step
    chk         \* the chkgraph tool: the ranges its processes compute

toolVars == <<filt, kagen, lib, post, chk>>

vars == <<gen, ret, produced, phase, calledIn, conv, chunk, config, proc,
          filt, kagen, lib, post, chk>>

Idle == [pc |-> "idle"]

\* the components added above, left alone
ToolsIdle == filt = Idle /\ kagen = Idle /\ lib = Idle /\ post = Idle /\ chk = Idle

(***************************************************************************)
(* Values.                                                                 *)
(***************************************************************************)
EDGE_LIST == "EDGE_LIST"
CSR == "CSR"
GraphRepresentation == {EDGE_LIST, CSR}

\* representation_ has no initializer: before the first Generate it holds
\* whatever the storage held, one of the enumerators or any other value
\* (INDETERMINATE stands for all the values that are no enumerator)
INDETERMINATE == "INDETERMINATE"
UninitializedRepresentations == GraphRepresentation \cup {INDETERMINATE}

CSROnlyGenerator == "CSROnlyGenerator"
EdgeListOnlyGenerator == "EdgeListOnlyGenerator"
GeneratorKinds == {CSROnlyGenerator, EdgeListOnlyGenerator}

NoGraph == [none |-> TRUE]
NoCoordinates == [first |-> <<>>, second |-> <<>>]

Vertices == 0 .. (NumVertices - 1)

\* half-open ranges [first, last) inside [0, NumVertices]
VertexRanges == {r \in (0 .. NumVertices) \X (0 .. NumVertices) : r[1] <= r[2]}

RangeSize(range) == range[2] - range[1]

SeqsUpTo(S, n) == UNION {[1 .. m -> S] : m \in 0 .. n}

(***************************************************************************)
(* The converter (kagen/tools/converter.h), from section 4.3.              *)
(***************************************************************************)
\* the edges of one tail, in input order
RECURSIVE HeadsOf(_, _)
HeadsOf(edges, tail) ==
    IF edges = <<>> THEN <<>>
    ELSE IF Head(edges)[1] = tail
         THEN <<Head(edges)[2]>> \o HeadsOf(Tail(edges), tail)
         ELSE HeadsOf(Tail(edges), tail)

\* adjncy: the heads grouped by local tail 0 .. n-1, stable inside a group
RECURSIVE AdjncyFrom(_, _, _)
AdjncyFrom(range, edges, i) ==
    IF i >= RangeSize(range) THEN <<>>
    ELSE HeadsOf(edges, range[1] + i) \o AdjncyFrom(range, edges, i + 1)

\* xadj: num_local_vertices + 1 offsets, xadj[0] = 0
RECURSIVE XadjFrom(_, _, _, _)
XadjFrom(range, edges, i, offset) ==
    IF i >= RangeSize(range) THEN <<offset>>
    ELSE <<offset>> \o XadjFrom(range, edges, i + 1, offset + Len(HeadsOf(edges, range[1] + i)))

BuildCSRFromEdgeList(range, edges) ==
    <<XadjFrom(range, edges, 0, 0), AdjncyFrom(range, edges, 0)>>

\* the edges of local vertex i: (range.first + i, adjncy[j]) for j in [xadj[i], xadj[i+1])
\* (0-based indices of the code; TLA+ sequences are 1-based)
RowEdges(range, xadj, adjncy, i) ==
    [j \in 1 .. (xadj[i + 2] - xadj[i + 1]) |-> <<range[1] + i, adjncy[xadj[i + 1] + j]>>]

RECURSIVE EdgesFromRow(_, _, _, _)
EdgesFromRow(range, xadj, adjncy, i) ==
    IF i + 1 >= Len(xadj) THEN <<>>
    ELSE RowEdges(range, xadj, adjncy, i) \o EdgesFromRow(range, xadj, adjncy, i + 1)

\* BuildEdgeListFromCSR emitting the local index i as the tail
BuildEdgeListFromCSRLocalTail(range, xadj, adjncy) ==
    EdgesFromRow(<<0, RangeSize(range)>>, xadj, adjncy, 0)

BuildEdgeListFromCSR(range, xadj, adjncy) == EdgesFromRow(range, xadj, adjncy, 0)

(***************************************************************************)
(* Generator (kagen/generators/generator.cpp).                             *)
(***************************************************************************)
\* a Generator right after construction: empty buffers, vertex range (0, 0),
\* representation the value its uninitialized representation_ holds
NewGenerator(kind, representation) ==
    [kind           |-> kind,
     vertex_range   |-> <<0, 0>>,
     representation |-> representation,
     edges          |-> <<>>,
     xadj           |-> <<>>,
     adjncy         |-> <<>>,
     vertex_weights |-> <<>>,
     edge_weights   |-> <<>>,
     coordinates    |-> NoCoordinates]

\* Generator::Reset with the edge list left in place
ResetKeepsEdges(g) ==
    [g EXCEPT !.xadj = <<>>, !.adjncy = <<>>, !.vertex_weights = <<>>,
              !.edge_weights = <<>>, !.coordinates = NoCoordinates]

Reset(g) ==
    [g EXCEPT !.edges = <<>>, !.xadj = <<>>, !.adjncy = <<>>,
              !.vertex_weights = <<>>, !.edge_weights = <<>>,
              !.coordinates = NoCoordinates]

\* Weights and coordinates a hook emits beside the graph: out.extras is
\* "none", "2d" (weights and 2-D coordinates) or "3d" (weights and 3-D ones).
OutVertexWeights(out) ==
    IF out.extras = "none" THEN <<>> ELSE [i \in 1 .. RangeSize(out.range) |-> 1]

OutEdgeWeights(out) ==
    IF out.extras = "none" THEN <<>>
    ELSE [i \in 1 .. (Len(out.edges) + Len(out.adjncy)) |-> i]

OutCoordinates(out) ==
    [first  |-> IF out.extras = "2d" THEN [i \in 1 .. RangeSize(out.range) |-> <<0, 0>>] ELSE <<>>,
     second |-> IF out.extras = "3d" THEN [i \in 1 .. RangeSize(out.range) |-> <<0, 0, 0>>] ELSE <<>>]

\* A family's native hook: SetVertexRange, then push_back of what it sampled.
NativeGenerate(g, out) ==
    [g EXCEPT !.vertex_range = out.range,
              !.edges = g.edges \o out.edges,
              !.xadj = g.xadj \o out.xadj,
              !.adjncy = g.adjncy \o out.adjncy,
              !.vertex_weights = g.vertex_weights \o OutVertexWeights(out),
              !.edge_weights = g.edge_weights \o OutEdgeWeights(out),
              !.coordinates = [first  |-> g.coordinates.first \o OutCoordinates(out).first,
                               second |-> g.coordinates.second \o OutCoordinates(out).second]]

\* CSROnlyGenerator::GenerateEdgeList calls GenerateCSR;
\* EdgeListOnlyGenerator::GenerateCSR calls GenerateEdgeList.
GenerateEdgeList(g, out) == NativeGenerate(g, out)

GenerateCSR(g, out) == NativeGenerate(g, out)

\* Generate without the assignment to representation_
GenerateKeepsRepresentation(g, representation, out) ==
    LET h == Reset(g)
    IN  CASE representation = EDGE_LIST -> GenerateEdgeList(h, out)
          [] representation = CSR -> GenerateCSR(h, out)
          [] OTHER -> h

\* the switch has a case for each enumerator and no default
Generate(g, representation, out) ==
    LET h == [Reset(g) EXCEPT !.representation = representation]
    IN  CASE representation = EDGE_LIST -> GenerateEdgeList(h, out)
          [] representation = CSR -> GenerateCSR(h, out)
          [] OTHER -> h

\* Generator::FinalizeEdgeList and Generator::FinalizeCSR: empty bodies
BaseFinalizeEdgeList(g) == g

BaseFinalizeCSR(g) == g

\* CSROnlyGenerator::FinalizeEdgeList without the conversion
CSROnlyFinalizeEdgeListNoConversion(g) ==
    IF g.xadj = <<>> THEN g ELSE BaseFinalizeCSR(g)

CSROnlyFinalizeEdgeList(g) ==
    IF g.xadj = <<>> THEN g
    ELSE LET h == BaseFinalizeCSR(g)
         IN  [h EXCEPT !.edges = BuildEdgeListFromCSR(h.vertex_range, h.xadj, h.adjncy)]

\* EdgeListOnlyGenerator::FinalizeCSR without the early return, appending
\* the built CSR to what is there
EdgeListOnlyFinalizeCSRAppends(g) ==
    LET h == BaseFinalizeEdgeList(g)
        csr == BuildCSRFromEdgeList(h.vertex_range, h.edges)
    IN  [h EXCEPT !.xadj = h.xadj \o csr[1], !.adjncy = h.adjncy \o csr[2]]

EdgeListOnlyFinalizeCSR(g) ==
    IF g.xadj # <<>> THEN g
    ELSE LET h == BaseFinalizeEdgeList(g)
             csr == BuildCSRFromEdgeList(h.vertex_range, h.edges)
         IN  [h EXCEPT !.xadj = csr[1], !.adjncy = csr[2]]

FinalizeEdgeList(g) ==
    IF g.kind = CSROnlyGenerator THEN CSROnlyFinalizeEdgeList(g) ELSE BaseFinalizeEdgeList(g)

FinalizeCSR(g) ==
    IF g.kind = EdgeListOnlyGenerator THEN EdgeListOnlyFinalizeCSR(g) ELSE BaseFinalizeCSR(g)

\* the switch has a case for each enumerator and no default
Finalize(g) ==
    CASE g.representation = EDGE_LIST -> FinalizeEdgeList(g)
      [] g.representation = CSR -> FinalizeCSR(g)
      [] OTHER -> g

\* GetNumberOfEdges adding the two sizes up
GetNumberOfEdgesSum(g) == Len(g.adjncy) + Len(g.edges)

\* std::max(adjncy_.size(), edges_.size())
GetNumberOfEdges(g) ==
    IF Len(g.adjncy) >= Len(g.edges) THEN Len(g.adjncy) ELSE Len(g.edges)

\* operator< of std::pair<SInt, SInt>: by tail, then by head
EdgeLess(a, b) == a[1] < b[1] \/ (a[1] = b[1] /\ a[2] < b[2])

\* std::sort(edges_.begin(), edges_.end())
RECURSIVE InsertSorted(_, _)
InsertSorted(sorted, e) ==
    IF sorted = <<>> THEN <<e>>
    ELSE IF EdgeLess(e, Head(sorted)) THEN <<e>> \o sorted
    ELSE <<Head(sorted)>> \o InsertSorted(Tail(sorted), e)

RECURSIVE SortEdges(_)
SortEdges(edges) ==
    IF edges = <<>> THEN <<>>
    ELSE InsertSorted(SortEdges(Tail(edges)), Head(edges))

\* std::unique followed by erase: of every run of equal neighbours the first stays
RECURSIVE UniqueEdges(_)
UniqueEdges(edges) ==
    IF Len(edges) <= 1 THEN edges
    ELSE IF edges[1] = edges[2] THEN UniqueEdges(Tail(edges))
    ELSE <<Head(edges)>> \o UniqueEdges(Tail(edges))

\* FilterDuplicateEdges without the std::sort
FilterDuplicateEdgesUnsorted(g) == [g EXCEPT !.edges = UniqueEdges(g.edges)]

\* only edges_ is sorted and shortened; edge_weights_ is not touched
FilterDuplicateEdges(g) == [g EXCEPT !.edges = UniqueEdges(SortEdges(g.edges))]

\* the Graph that Take returns
TakeGraph(g) ==
    [vertex_range   |-> g.vertex_range,
     representation |-> g.representation,
     edges          |-> g.edges,
     xadj           |-> g.xadj,
     adjncy         |-> g.adjncy,
     vertex_weights |-> g.vertex_weights,
     edge_weights   |-> g.edge_weights,
     coordinates    |-> g.coordinates]

\* the generator after a Take that copied the edge list instead of moving it
TakeLeavesEdges(g) ==
    [g EXCEPT !.xadj = <<>>, !.adjncy = <<>>, !.vertex_weights = <<>>,
              !.edge_weights = <<>>, !.coordinates = NoCoordinates]

\* the generator after Take: every moved-from vector is empty
TakeLeaves(g) ==
    [g EXCEPT !.edges = <<>>, !.xadj = <<>>, !.adjncy = <<>>,
              !.vertex_weights = <<>>, !.edge_weights = <<>>,
              !.coordinates = NoCoordinates]

(***************************************************************************)
(* What a native hook can emit.                                            *)
(***************************************************************************)
Extras == {"none", "2d", "3d"}

\* an edge-list family: local edges with their tail in the range
EdgeListOutputs ==
    {[range |-> r, edges |-> e, xadj |-> <<>>, adjncy |-> <<>>, extras |-> x] :
        r \in VertexRanges, x \in Extras,
        e \in SeqsUpTo(Vertices \X Vertices, MaxEdges)}

ValidEdgeListOutput(out) ==
    /\ \A i \in 1 .. Len(out.edges) :
          out.range[1] <= out.edges[i][1] /\ out.edges[i][1] < out.range[2]
    /\ (RangeSize(out.range) = 0 => out.extras = "none")

IsCSR(range, xadj, adjncy) ==
    /\ Len(xadj) = RangeSize(range) + 1
    /\ xadj[1] = 0
    /\ xadj[Len(xadj)] = Len(adjncy)
    /\ \A i \in 1 .. (Len(xadj) - 1) : xadj[i] <= xadj[i + 1]

\* a CSR family: a CSR of the range, or nothing at all for an empty slice
CSROutputsOf(r, a) ==
    {[range |-> r, edges |-> <<>>, xadj |-> x, adjncy |-> a, extras |-> e] :
        x \in {y \in [1 .. (RangeSize(r) + 1) -> 0 .. Len(a)] : IsCSR(r, y, a)},
        e \in IF RangeSize(r) = 0 THEN {"none"} ELSE Extras}

CSROutputs ==
    UNION {CSROutputsOf(r, a) : r \in VertexRanges, a \in SeqsUpTo(Vertices, MaxEdges)}
    \cup {[range |-> r, edges |-> <<>>, xadj |-> <<>>, adjncy |-> <<>>, extras |-> "none"] :
            r \in {q \in VertexRanges : RangeSize(q) = 0}}

OutputsOf(kind) ==
    IF kind = CSROnlyGenerator THEN CSROutputs
    ELSE {out \in EdgeListOutputs : ValidEdgeListOutput(out)}

(***************************************************************************)
(* The generator's lifecycle: any operation may be called at any time.     *)
(***************************************************************************)
Dirty(g) ==
    \/ g.edges # <<>> \/ g.xadj # <<>> \/ g.adjncy # <<>>
    \/ g.vertex_weights # <<>> \/ g.edge_weights # <<>>
    \/ g.coordinates # NoCoordinates

\* the Graph in ret came from Generate -> Finalize -> Take
TakenAfterFinalize == phase = "TAKEN" /\ calledIn.phase = "FINALIZED"

\* requested: the representation the last Generate was asked for;
\* reused: a Generate -> Finalize -> Take cycle was completed before this call;
\* taken: Take was called before this call and Generate was not called since
Called ==
    [phase |-> phase, dirty |-> Dirty(gen), dirtyBefore |-> calledIn.dirty,
     requested |-> calledIn.requested,
     reused |-> calledIn.reused \/ TakenAfterFinalize,
     taken |-> \/ phase \in {"TAKEN", "RETAKEN"}
               \/ (phase # "GENERATED" /\ calledIn.taken)]

\* representation_ has no initializer: its value before the first Generate is any
InitGen ==
    /\ gen \in {NewGenerator(k, r) : k \in GeneratorKinds, r \in UninitializedRepresentations}
    /\ ret = NoGraph
    /\ produced \in OutputsOf(gen.kind)
    /\ phase = "RESET"
    /\ calledIn = [phase |-> "NONE", dirty |-> FALSE, dirtyBefore |-> FALSE,
                   requested |-> "NONE", reused |-> FALSE, taken |-> FALSE]
    /\ conv = Idle
    /\ chunk = Idle
    /\ config = Idle
    /\ proc = Idle
    /\ ToolsIdle

GenerateOp ==
    \E representation \in GraphRepresentation :
        /\ gen' = Generate(gen, representation, produced)
        /\ ret' = NoGraph
        /\ phase' = "GENERATED"
        /\ calledIn' = [Called EXCEPT !.requested = representation]
        /\ UNCHANGED <<produced, convVars, toolVars, chunkVars, facadeVars>>

FinalizeOp ==
    /\ gen' = Finalize(gen)
    /\ ret' = NoGraph
    /\ phase' = CASE phase = "GENERATED" -> "FINALIZED"
                  [] phase \in {"FINALIZED", "REFINALIZED"} -> "REFINALIZED"
                  [] OTHER -> "OTHER"
    /\ calledIn' = Called
    /\ UNCHANGED <<produced, convVars, toolVars, chunkVars, facadeVars>>

TakeOp ==
    /\ ret' = TakeGraph(gen)
    /\ gen' = TakeLeaves(gen)
    /\ phase' = IF phase \in {"TAKEN", "RETAKEN"} THEN "RETAKEN" ELSE "TAKEN"
    /\ calledIn' = Called
    /\ UNCHANGED <<produced, convVars, toolVars, chunkVars, facadeVars>>

\* the generator left alone, in the specifications of the other components
GenIdle ==
    /\ gen = NewGenerator(EdgeListOnlyGenerator, EDGE_LIST)
    /\ ret = NoGraph
    /\ produced = [range |-> <<0, 0>>, edges |-> <<>>, xadj |-> <<>>, adjncy |-> <<>>, extras |-> "none"]
    /\ phase = "RESET"
    /\ calledIn = [phase |-> "NONE", dirty |-> FALSE, dirtyBefore |-> FALSE,
                   requested |-> "NONE", reused |-> FALSE, taken |-> FALSE]

Init == InitGen

Next == GenerateOp \/ FinalizeOp \/ TakeOp

Spec == Init /\ [][Next]_vars

(***************************************************************************)
(* Properties of the generator's lifecycle.                                *)
(***************************************************************************)
CSRPairNonEmpty(graph) == graph.xadj # <<>> \/ graph.adjncy # <<>>

\* C2: the Graph obtained by Generate -> Finalize -> Take (with at least one
\* local edge) has exactly one of {edge list, CSR pair} non-empty, and the
\* buffers of the representation that was not requested are empty.
C2_ExactlyOneRepresentation ==
    (TakenAfterFinalize /\ Len(ret.edges) + Len(ret.adjncy) > 0) =>
        /\ (ret.edges # <<>>) # CSRPairNonEmpty(ret)
        /\ (ret.representation = EDGE_LIST => ~CSRPairNonEmpty(ret))
        /\ (ret.representation = CSR => ret.edges = <<>>)

\* C3: whatever was called before, right after Generate every buffer holds
\* exactly what this call's generation hook emitted, once.
C3_GenerateHoldsOnlyItsOutput ==
    phase = "GENERATED" =>
        /\ gen.edges = produced.edges
        /\ gen.xadj = produced.xadj
        /\ gen.adjncy = produced.adjncy
        /\ gen.vertex_weights = OutVertexWeights(produced)
        /\ gen.edge_weights = OutEdgeWeights(produced)
        /\ gen.coordinates = OutCoordinates(produced)

\* a Generate called on buffers that an earlier Generate / Finalize had filled
C3_Witness ==
    /\ phase = "GENERATED"
    /\ calledIn.phase \in {"GENERATED", "FINALIZED"}
    /\ calledIn.dirty
    /\ gen.edges # <<>>
    /\ gen.edge_weights # <<>>

EmptyGraph(range, representation) ==
    [vertex_range   |-> range,
     representation |-> representation,
     edges          |-> <<>>,
     xadj           |-> <<>>,
     adjncy         |-> <<>>,
     vertex_weights |-> <<>>,
     edge_weights   |-> <<>>,
     coordinates    |-> NoCoordinates]

\* every buffer of the generator is empty
BuffersEmpty ==
    /\ gen.edges = <<>> /\ gen.xadj = <<>> /\ gen.adjncy = <<>>
    /\ gen.vertex_weights = <<>> /\ gen.edge_weights = <<>>
    /\ gen.coordinates.first = <<>> /\ gen.coordinates.second = <<>>

\* the last call was a Take, and a Take had been called before it with no
\* Generate in between
SecondTake == phase \in {"TAKEN", "RETAKEN"} /\ calledIn.taken

\* C4 as stated: right after a Take every buffer of the generator is empty,
\* and a second Take with no Generate in between returns an empty graph.
\* Generate(CSR) -> Take -> Finalize -> Take on an EdgeListOnlyGenerator
\* refutes it: the Finalize finds xadj_ empty and builds it again from the
\* empty edge list, and the second Take moves that xadj out.
C4_SecondTakeEmpty ==
    /\ phase \in {"TAKEN", "RETAKEN"} => BuffersEmpty
    /\ SecondTake => ret = EmptyGraph(gen.vertex_range, gen.representation)

\* the same second Take, on a generator whose representation_ was assigned by
\* a Generate: the refutation does not rest on the uninitialized member
SecondTakeEmptyAfterGenerate ==
    (SecondTake /\ calledIn.requested # "NONE") =>
        ret = EmptyGraph(gen.vertex_range, gen.representation)

\* C4, amended: right after a Take every buffer of the generator is empty; a
\* Take that directly follows a Take returns an empty graph; a second Take
\* with no Generate in between returns an empty graph up to xadj, and its
\* xadj is non-empty only on an EdgeListOnlyGenerator whose representation
\* is CSR and on which Finalize ran between the two Takes.
C4_TakeExactlyOnce ==
    /\ phase \in {"TAKEN", "RETAKEN"} => BuffersEmpty
    /\ phase = "RETAKEN" => ret = EmptyGraph(gen.vertex_range, gen.representation)
    /\ SecondTake =>
          /\ [ret EXCEPT !.xadj = <<>>] = EmptyGraph(gen.vertex_range, gen.representation)
          /\ ret.xadj # <<>> =>
                /\ gen.kind = EdgeListOnlyGenerator
                /\ gen.representation = CSR
                /\ phase = "TAKEN"

\* the second of two Takes, the first of which moved out a non-empty graph
C4_Witness ==
    /\ phase = "RETAKEN"
    /\ calledIn.phase = "TAKEN"
    /\ calledIn.dirtyBefore
    /\ ret.edges = <<>>

\* the heads of the edges with the given tail, in list order
HeadsWithTail(edges, tail) ==
    LET sel == SelectSeq(edges, LAMBDA e : e[1] = tail)
    IN  [k \in 1 .. Len(sel) |-> sel[k][2]]

\* C5: after Generate -> Finalize, a CSR-only generator asked for EDGE_LIST
\* holds exactly one edge (vertex_range.first + i, adjncy[j]) per local vertex
\* i and j in [xadj[i], xadj[i+1]), and an edge-list-only generator asked for
\* CSR holds the CSR of its edge list and vertex range.
C5_FinalizeConverts ==
    phase = "FINALIZED" =>
        /\ (gen.kind = CSROnlyGenerator /\ gen.representation = EDGE_LIST) =>
              /\ Len(gen.edges) = Len(gen.adjncy)
              /\ \A i \in 1 .. (Len(gen.xadj) - 1) :
                    \A j \in (gen.xadj[i] + 1) .. gen.xadj[i + 1] :
                        gen.edges[j] = <<gen.vertex_range[1] + (i - 1), gen.adjncy[j]>>
        /\ (gen.kind = EdgeListOnlyGenerator /\ gen.representation = CSR) =>
              /\ IsCSR(gen.vertex_range, gen.xadj, gen.adjncy)
              /\ \A i \in 1 .. RangeSize(gen.vertex_range) :
                    SubSeq(gen.adjncy, gen.xadj[i] + 1, gen.xadj[i + 1])
                        = HeadsWithTail(gen.edges, gen.vertex_range[1] + (i - 1))

\* a CSR-only generator whose two-edge CSR slice, starting at vertex 1, was
\* converted to an edge list by Finalize
C5_Witness ==
    /\ phase = "FINALIZED"
    /\ gen.kind = CSROnlyGenerator
    /\ gen.representation = EDGE_LIST
    /\ gen.vertex_range[1] > 0
    /\ Len(gen.adjncy) = 2
    /\ Len(gen.edges) = 2

\* the number of local edges the generation hook emitted
LocalEdges(out) == Len(out.edges) + Len(out.adjncy)

\* C14: after Generate and after every Finalize that follows it, for both
\* variants and both requested representations, GetNumberOfEdges is the
\* larger of the two sizes and equals the number of local edges generated;
\* when edge list and adjacency array are both non-empty they have one size.
C14_NumberOfEdges ==
    phase \in {"GENERATED", "FINALIZED", "REFINALIZED"} =>
        /\ GetNumberOfEdges(gen) >= Len(gen.adjncy)
        /\ GetNumberOfEdges(gen) >= Len(gen.edges)
        /\ GetNumberOfEdges(gen) \in {Len(gen.adjncy), Len(gen.edges)}
        /\ GetNumberOfEdges(gen) = LocalEdges(produced)
        /\ (gen.edges # <<>> /\ gen.adjncy # <<>>) => Len(gen.edges) = Len(gen.adjncy)

\* an edge-list-only generator asked for CSR, after Finalize: two edges in
\* both representations
C14_Witness ==
    /\ phase = "FINALIZED"
    /\ gen.kind = EdgeListOnlyGenerator
    /\ gen.representation = CSR
    /\ Len(gen.edges) = 2
    /\ Len(gen.adjncy) = 2
    /\ GetNumberOfEdges(gen) = 2

\* what a freshly constructed generator of this kind returns for
\* Generate(representation) -> Finalize -> Take
FreshResult(kind, representation) ==
    TakeGraph(Finalize(Generate(NewGenerator(kind, representation), representation, produced)))

\* C15: whatever cycles the instance went through before, the Graph returned
\* by Generate -> Finalize -> Take is the one a freshly constructed generator
\* of the same configuration returns for that call: vertex range,
\* representation tag and every buffer.
C15_ReuseLikeFresh ==
    TakenAfterFinalize => ret = FreshResult(gen.kind, calledIn.requested)

\* the second cycle of an instance, asked for CSR, whose first cycle had
\* converted a non-empty slice starting at vertex 1
C15_Witness ==
    /\ TakenAfterFinalize
    /\ calledIn.reused
    /\ calledIn.requested = CSR
    /\ ret.vertex_range[1] > 0
    /\ ret.adjncy # <<>>
    /\ ret.edge_weights # <<>>

\* the generator after Generate(representation) and one Finalize
FinalizedOnce(kind, representation) ==
    Finalize(Generate(NewGenerator(kind, representation), representation, produced))

\* C23: after Generate and two or more Finalize calls, edges, xadj and
\* adjncy are what they were after the first Finalize, and one more
\* Finalize would not change the generator; for both variants and both
\* requested representations (the native finalize hooks do nothing here).
C23_FinalizeIdempotent ==
    phase = "REFINALIZED" =>
        /\ gen.edges = FinalizedOnce(gen.kind, calledIn.requested).edges
        /\ gen.xadj = FinalizedOnce(gen.kind, calledIn.requested).xadj
        /\ gen.adjncy = FinalizedOnce(gen.kind, calledIn.requested).adjncy
        /\ Finalize(gen) = gen

\* an edge-list-only generator asked for CSR, finalized twice: two edges,
\* two adjacency entries
C23_Witness ==
    /\ phase = "REFINALIZED"
    /\ gen.kind = EdgeListOnlyGenerator
    /\ gen.representation = CSR
    /\ Len(gen.edges) = 2
    /\ Len(gen.adjncy) = 2
    /\ gen.vertex_range[1] > 0

(***************************************************************************)
(* The converter applied to one local slice.                               *)
(***************************************************************************)
ConvInputs ==
    {[range |-> r, edges |-> e] :
        r \in VertexRanges, e \in SeqsUpTo(Vertices \X Vertices, MaxConvEdges)}

\* a valid slice: every tail lies in the vertex range
ValidSlice(range, edges) ==
    \A i \in 1 .. Len(edges) : range[1] <= edges[i][1] /\ edges[i][1] < range[2]

InitConv ==
    /\ \E in \in {x \in ConvInputs : ValidSlice(x.range, x.edges)} :
          conv = [pc |-> "input", range |-> in.range, edges |-> in.edges,
                  xadj |-> <<>>, adjncy |-> <<>>, back |-> <<>>]
    /\ GenIdle
    /\ chunk = Idle
    /\ config = Idle
    /\ proc = Idle
    /\ ToolsIdle

ConvBuildCSR ==
    /\ conv.pc = "input"
    /\ LET csr == BuildCSRFromEdgeList(conv.range, conv.edges)
       IN  conv' = [conv EXCEPT !.pc = "csr", !.xadj = csr[1], !.adjncy = csr[2]]
    /\ UNCHANGED <<genVars, toolVars, chunkVars, facadeVars>>

ConvBuildEdgeList ==
    /\ conv.pc = "csr"
    /\ conv' = [conv EXCEPT !.pc = "done",
                            !.back = BuildEdgeListFromCSR(conv.range, conv.xadj, conv.adjncy)]
    /\ UNCHANGED <<genVars, toolVars, chunkVars, facadeVars>>

NextConv == ConvBuildCSR \/ ConvBuildEdgeList

SpecConv == InitConv /\ [][NextConv]_vars

\* how often an edge occurs in an edge list
Multiplicity(edges, e) == Cardinality({i \in 1 .. Len(edges) : edges[i] = e})

\* C6: for a slice whose tails lie in the range, the round trip edge list ->
\* CSR -> edge list returns the same multiset of edges (self-loops and
\* multi-edges kept), grouped by ascending tail, with the input order kept
\* inside each group.
C6_RoundTrip ==
    conv.pc = "done" =>
        /\ Len(conv.back) = Len(conv.edges)
        /\ \A e \in Vertices \X Vertices :
              Multiplicity(conv.back, e) = Multiplicity(conv.edges, e)
        /\ \A i \in 1 .. (Len(conv.back) - 1) : conv.back[i][1] <= conv.back[i + 1][1]
        /\ \A t \in Vertices :
              HeadsWithTail(conv.back, t) = HeadsWithTail(conv.edges, t)

\* a round trip of a list that is not sorted by tail and holds a multi-edge
\* and a self-loop
C6_Witness ==
    /\ conv.pc = "done"
    /\ Len(conv.edges) = 3
    /\ conv.edges[1][1] > conv.edges[3][1]
    /\ conv.edges[1] = conv.edges[2]
    /\ conv.edges[1][1] = conv.edges[1][2]
    /\ conv.back # conv.edges

(***************************************************************************)
(* FilterDuplicateEdges on a generator that just generated an edge list.   *)
(***************************************************************************)
FilterOutputs ==
    {out \in {[range |-> r, edges |-> e, xadj |-> <<>>, adjncy |-> <<>>, extras |-> x] :
                r \in VertexRanges, x \in Extras,
                e \in SeqsUpTo(Vertices \X Vertices, MaxFilterEdges)} :
        ValidEdgeListOutput(out)}

\* input: the generator before the first FilterDuplicateEdges;
\* before: the edge list before the last one
InitFilter ==
    /\ \E out \in FilterOutputs :
          LET g == Generate(NewGenerator(EdgeListOnlyGenerator, EDGE_LIST), EDGE_LIST, out)
          IN  filt = [pc |-> "generated", gen |-> g, input |-> g, before |-> <<>>]
    /\ GenIdle
    /\ conv = Idle
    /\ chunk = Idle
    /\ config = Idle
    /\ proc = Idle
    /\ kagen = Idle /\ lib = Idle /\ post = Idle /\ chk = Idle

FilterDuplicateEdgesOp ==
    /\ filt.pc \in {"generated", "filtered"}
    /\ filt' = [filt EXCEPT !.pc = IF filt.pc = "generated" THEN "filtered" ELSE "refiltered",
                            !.before = filt.gen.edges,
                            !.gen = FilterDuplicateEdges(filt.gen)]
    /\ UNCHANGED <<genVars, convVars, chunkVars, facadeVars, kagen, lib, post, chk>>

NextFilter == FilterDuplicateEdgesOp

SpecFilter == InitFilter /\ [][NextFilter]_vars

EdgeSet(edges) == {edges[i] : i \in 1 .. Len(edges)}

\* C12: the result of FilterDuplicateEdges is strictly ascending by (tail,
\* head), holds exactly the edge values of the input, and a second
\* application changes nothing.
C12_FilterDuplicateEdges ==
    filt.pc \in {"filtered", "refiltered"} =>
        /\ \A i \in 1 .. (Len(filt.gen.edges) - 1) :
              EdgeLess(filt.gen.edges[i], filt.gen.edges[i + 1])
        /\ EdgeSet(filt.gen.edges) = EdgeSet(filt.input.edges)
        /\ (filt.pc = "refiltered" => filt.gen.edges = filt.before)

\* twice filtered: three edges, the first above the last, two of them equal
C12_Witness ==
    /\ filt.pc = "refiltered"
    /\ Len(filt.input.edges) = 3
    /\ EdgeLess(filt.input.edges[3], filt.input.edges[1])
    /\ filt.input.edges[1] = filt.input.edges[3] \/ filt.input.edges[1] = filt.input.edges[2]
    /\ Len(filt.gen.edges) = 2

\* C13: after FilterDuplicateEdges on a generator with edge weights there is
\* one weight per edge, and the weight at position i is one the input gave
\* to the edge now at position i.
C13_WeightsFollowEdges ==
    (filt.pc = "filtered" /\ filt.input.edge_weights # <<>>) =>
        /\ Len(filt.gen.edge_weights) = Len(filt.gen.edges)
        /\ \A i \in 1 .. Len(filt.gen.edges) :
              \E j \in 1 .. Len(filt.input.edges) :
                  /\ filt.input.edges[j] = filt.gen.edges[i]
                  /\ filt.input.edge_weights[j] = filt.gen.edge_weights[i]

(***************************************************************************)
(* GeneratorFactory: the chunk-count rules (generator.cpp, lines 121-195). *)
(* SInt values stay far below 2^32 here, so no product wraps.              *)
(***************************************************************************)
ConfigurationError(what) == [thrown |-> TRUE, what |-> what]
NoError == [thrown |-> FALSE]

\* std::round(std::sqrt(value)): the integer nearest to the square root
RoundSqrt(value) ==
    CHOOSE r \in 0 .. value : value <= r * r + r /\ (r = 0 \/ value > r * r - r)

\* the SInt that std::sqrt(value) is truncated to
TruncSqrt(value) ==
    CHOOSE r \in 0 .. value : r * r <= value /\ value < (r + 1) * (r + 1)

\* (value & (value - 1)) == 0
IsPowerOfTwo(value) ==
    value = 0 \/ \E e \in 0 .. value : 2 ^ e = value

\* IsSquare with the comparison root * root >= value
IsSquareAtLeast(value) ==
    LET root == RoundSqrt(value)
    IN  root * root >= value

IsSquare(value) ==
    LET root == RoundSqrt(value)
    IN  root * root = value

\* std::round(std::cbrt(value)): the integer nearest to the cube root
RoundCbrt(value) ==
    CHOOSE r \in 0 .. value :
        /\ 8 * value < (2 * r + 1) * (2 * r + 1) * (2 * r + 1)
        /\ (r = 0 \/ 8 * value > (2 * r - 1) * (2 * r - 1) * (2 * r - 1))

\* the SInt that std::cbrt(value) is truncated to
TruncCbrt(value) ==
    CHOOSE r \in 0 .. value : r * r * r <= value /\ value < (r + 1) * (r + 1) * (r + 1)

IsCubic(value) ==
    LET root == RoundCbrt(value)
    IN  root * root * root = value

RECURSIVE FindSquareLoop(_, _)
FindSquareLoop(value, cur) ==
    IF cur < value
    THEN IF (cur * cur) % value = 0 THEN cur * cur ELSE FindSquareLoop(value, cur + 1)
    ELSE value * value

\* a square multiple of value, not the smallest one
FindSquareMultipleOfSquared(value) == value * value

FindSquareMultipleOf(value) ==
    IF IsSquare(value) THEN value
    ELSE IF IsPowerOfTwo(value) THEN 2 * value
    ELSE FindSquareLoop(value, TruncSqrt(value))

RECURSIVE FindCubeLoop(_, _)
FindCubeLoop(value, cur) ==
    IF cur < value
    THEN IF (cur * cur * cur) % value = 0 THEN cur * cur * cur ELSE FindCubeLoop(value, cur + 1)
    ELSE value * value * value

FindCubeMultipleOf(value) ==
    IF IsCubic(value) THEN value
    ELSE IF IsPowerOfTwo(value) THEN (IF IsCubic(value * 2) THEN value * 2 ELSE value * 4)
    ELSE FindCubeLoop(value, TruncCbrt(value))

\* the call's effect: the k it leaves in config, and what it throws
EnsureSquareChunkSize(k, size) ==
    IF k = 0 THEN [k |-> FindSquareMultipleOf(size), error |-> NoError]
    ELSE IF ~IsSquare(k)
         THEN [k |-> k, error |-> ConfigurationError("number of chunks must be square")]
         ELSE [k |-> k, error |-> NoError]

\* the base rule with k overwritten whether it was set or not
NormalizeParametersAlways(cfg, size) == [cfg EXCEPT !.k = size]

\* the base rule: an unset k becomes the process count. The parameter is
\* taken by value and the copy is returned.
NormalizeParameters(cfg, size) ==
    IF cfg.k = 0 THEN [cfg EXCEPT !.k = size] ELSE cfg

\* a default-constructed PGeneratorConfig, as far as the fields kept here go
DefaultConfig == [k |-> 0, n |-> 0, quiet |-> FALSE]

\* the configurations a caller hands to the factory
ChunkConfigs == [k : 0 .. MaxK, n : {0, 1}, quiet : BOOLEAN]

\* config_template is the caller's configuration (facade.cpp: a const
\* reference), config the facade's local one; templateIn remembers what the
\* caller passed.
\* EnsureCubicChunkSize without the check of an explicit k
EnsureCubicChunkSizeNoCheck(k, size) ==
    IF k = 0 THEN [k |-> FindCubeMultipleOf(size), error |-> NoError]
    ELSE [k |-> k, error |-> NoError]

EnsureCubicChunkSize(k, size) ==
    IF k = 0 THEN [k |-> FindCubeMultipleOf(size), error |-> NoError]
    ELSE IF ~IsCubic(k)
         THEN [k |-> k, error |-> ConfigurationError("number of chunks must be cubic")]
         ELSE [k |-> k, error |-> NoError]

InitChunk ==
    /\ \E c \in ChunkConfigs, size \in 1 .. MaxSize :
          chunk = [pc |-> "call", rule |-> "none", kIn |-> c.k, size |-> size,
                   k |-> c.k, error |-> NoError,
                   templateIn |-> c, config_template |-> c, config |-> DefaultConfig]
    /\ GenIdle
    /\ conv = Idle
    /\ config = Idle
    /\ proc = Idle
    /\ ToolsIdle

CallEnsureSquareChunkSize ==
    /\ chunk.pc = "call"
    /\ LET r == EnsureSquareChunkSize(chunk.k, chunk.size)
       IN  chunk' = [chunk EXCEPT !.pc = IF r.error.thrown THEN "thrown" ELSE "returned",
                                  !.rule = "EnsureSquareChunkSize",
                                  !.k = r.k, !.error = r.error]
    /\ UNCHANGED <<genVars, convVars, toolVars, facadeVars>>

\* config = factory->NormalizeParameters(config_template, size, output_info)
\* for a family that keeps the base rule
CallNormalizeParameters ==
    /\ chunk.pc = "call"
    /\ chunk' = [chunk EXCEPT !.pc = "returned",
                              !.rule = "NormalizeParameters",
                              !.config = NormalizeParameters(chunk.config_template, chunk.size)]
    /\ UNCHANGED <<genVars, convVars, toolVars, facadeVars>>

CallEnsureCubicChunkSize ==
    /\ chunk.pc = "call"
    /\ LET r == EnsureCubicChunkSize(chunk.k, chunk.size)
       IN  chunk' = [chunk EXCEPT !.pc = IF r.error.thrown THEN "thrown" ELSE "returned",
                                  !.rule = "EnsureCubicChunkSize",
                                  !.k = r.k, !.error = r.error]
    /\ UNCHANGED <<genVars, convVars, toolVars, facadeVars>>

NextChunk == CallEnsureSquareChunkSize \/ CallNormalizeParameters \/ CallEnsureCubicChunkSize

SpecChunk == InitChunk /\ [][NextChunk]_vars

PerfectSquare(n) == \E r \in 0 .. n : r * r = n

\* C10: called with an explicit chunk count k # 0, EnsureSquareChunkSize
\* returns normally, with k unchanged, when k is a perfect square, and raises
\* ConfigurationError when it is not.
C10_SquareChunkCount ==
    (chunk.pc \in {"returned", "thrown"} /\ chunk.rule = "EnsureSquareChunkSize" /\ chunk.kIn # 0) =>
        IF PerfectSquare(chunk.kIn)
        THEN chunk.pc = "returned" /\ chunk.k = chunk.kIn
        ELSE chunk.pc = "thrown" /\ chunk.error.thrown

\* k = 4 was accepted and left as it is
C10_Witness ==
    /\ chunk.pc = "returned"
    /\ chunk.rule = "EnsureSquareChunkSize"
    /\ chunk.kIn = 4
    /\ chunk.k = 4

\* C11: the base NormalizeParameters returns a configuration whose k is the
\* process count when the caller left k = 0 and the caller's k otherwise,
\* whose other fields are the caller's, and the caller's configuration is
\* what it was before the call.
C11_NormalizeParametersFrame ==
    (chunk.pc = "returned" /\ chunk.rule = "NormalizeParameters") =>
        /\ chunk.config.k = (IF chunk.templateIn.k = 0 THEN chunk.size ELSE chunk.templateIn.k)
        /\ DOMAIN chunk.config = DOMAIN chunk.templateIn
        /\ \A f \in DOMAIN chunk.templateIn \ {"k"} : chunk.config[f] = chunk.templateIn[f]
        /\ chunk.config_template = chunk.templateIn

\* an explicit k = 5 on 3 processes came back as 5, beside non-default fields
C11_Witness ==
    /\ chunk.pc = "returned"
    /\ chunk.rule = "NormalizeParameters"
    /\ chunk.templateIn.k = 5
    /\ chunk.size = 3
    /\ chunk.config.k = 5
    /\ chunk.templateIn.n = 1
    /\ chunk.templateIn.quiet

\* C21: called with k = 0, EnsureSquareChunkSize returns normally and leaves
\* in k a perfect square that is a positive multiple of the process count,
\* and no smaller perfect square is one (a square multiple of size has a
\* root that is at most size when it is at most size * size).
C21_SmallestSquareMultiple ==
    (chunk.pc \in {"returned", "thrown"} /\ chunk.rule = "EnsureSquareChunkSize" /\ chunk.kIn = 0) =>
        /\ chunk.pc = "returned"
        /\ chunk.k > 0
        /\ chunk.k % chunk.size = 0
        /\ \E r \in 1 .. chunk.size : r * r = chunk.k
        /\ \A r \in 1 .. chunk.size : (r * r) % chunk.size = 0 => r * r >= chunk.k

\* 12 processes: the loop stops at 6 * 6 = 36, below 12 * 12
C21_Witness ==
    /\ chunk.pc = "returned"
    /\ chunk.rule = "EnsureSquareChunkSize"
    /\ chunk.kIn = 0
    /\ chunk.size = 12
    /\ chunk.k = 36

PerfectCube(n) == \E r \in 0 .. n : r * r * r = n

\* C22: EnsureCubicChunkSize returns normally only with a perfect cube in
\* k; an explicit k # 0 is returned unchanged when it is a perfect cube and
\* raises ConfigurationError when it is not; k = 0 is replaced by the
\* smallest perfect cube that is a positive multiple of the process count.
C22_CubicChunkCount ==
    (chunk.pc \in {"returned", "thrown"} /\ chunk.rule = "EnsureCubicChunkSize") =>
        /\ (chunk.pc = "returned" => \E r \in 1 .. (chunk.kIn + chunk.size) : r * r * r = chunk.k)
        /\ (chunk.kIn # 0 =>
               IF PerfectCube(chunk.kIn)
               THEN chunk.pc = "returned" /\ chunk.k = chunk.kIn
               ELSE chunk.pc = "thrown" /\ chunk.error.thrown)
        /\ (chunk.kIn = 0 =>
               /\ chunk.pc = "returned"
               /\ chunk.k > 0
               /\ chunk.k % chunk.size = 0
               /\ \A r \in 1 .. chunk.size :
                     (r * r * r) % chunk.size = 0 => r * r * r >= chunk.k)

\* 12 processes: the loop stops at 6 * 6 * 6 = 216, below 12 * 12 * 12
C22_Witness ==
    /\ chunk.pc = "returned"
    /\ chunk.rule = "EnsureCubicChunkSize"
    /\ chunk.kIn = 0
    /\ chunk.size = 12
    /\ chunk.k = 216

(***************************************************************************)
(* GeneratorFactory::NormalizeParameters of the configured family.         *)
(***************************************************************************)
\* the rule of the configured family: RGG_2D asks for a square chunk count,
\* GNM_DIRECTED has the base rule
FamilyNormalizeParameters(cfg, size) ==
    IF cfg.generator = "RGG_2D"
    THEN LET r == EnsureSquareChunkSize(cfg.k, size)
         IN  [config |-> [cfg EXCEPT !.k = r.k], error |-> r.error]
    ELSE [config |-> NormalizeParameters(cfg, size), error |-> NoError]

(***************************************************************************)
(* The facade's Generate (kagen/facade.cpp), called by every process of    *)
(* the communicator with the same configuration.                           *)
(***************************************************************************)
Ranks == 0 .. (NumPE - 1)
ROOT == 0

StatisticsLevels == <<"NONE", "BASIC", "ADVANCED">>

\* config.statistics_level >= level
StatisticsAtLeast(cfg, level) ==
    \E i, j \in 1 .. Len(StatisticsLevels) :
        /\ StatisticsLevels[i] = cfg.statistics_level
        /\ StatisticsLevels[j] = level
        /\ i >= j

FacadeConfigs ==
    [generator : {"GNM_DIRECTED", "RGG_2D"},
     k : 0 .. MaxFacadeK,
     quiet : BOOLEAN,
     skip_postprocessing : BOOLEAN,
     validate_simple_graph : BOOLEAN,
     statistics_level : {StatisticsLevels[i] : i \in 1 .. Len(StatisticsLevels)}]

\* output_error, with the quiet flag consulted as for output_info
OutputErrorUnlessQuiet(rank) == rank = ROOT /\ ~config.quiet

OutputError(rank) == rank = ROOT

OutputInfo(rank) == rank = ROOT /\ ~config.quiet

\* Finalize run whatever skip_postprocessing says
RunsFinalizeAlways == TRUE

\* line 137: Finalize is called unless postprocessing is skipped
RunsFinalize == ~config.skip_postprocessing

\* the edge-count reductions entered by the process that prints their result
EntersEdgeCountReducesIfPrinting(rank) ==
    ~config.skip_postprocessing /\ OutputInfo(rank)

\* line 147: the two MPI_Reduce calls
EntersEdgeCountReduces(rank) ==
    ~config.skip_postprocessing /\ ~config.quiet

\* lines 182-196: the first thing to do after the validation block
AfterValidation ==
    IF ~config.quiet /\ StatisticsAtLeast(config, "BASIC") THEN "basic_statistics"
    ELSE IF ~config.quiet /\ StatisticsAtLeast(config, "ADVANCED") THEN "advanced_statistics"
    ELSE "return"

AfterBasicStatistics ==
    IF StatisticsAtLeast(config, "ADVANCED") THEN "advanced_statistics" ELSE "return"

\* the calls on the communicator: the two MPI_Reduce, ValidateSimpleGraph,
\* MPI_Allreduce and the two statistics printers
Collectives ==
    {"reduce_before", "reduce_after", "validate", "allreduce",
     "basic_statistics", "advanced_statistics"}

Terminated(p) == proc[p].pc \in {"exited", "returned"}

InitFacade ==
    /\ config \in FacadeConfigs
    /\ proc = [p \in Ranks |->
                [pc |-> "start", inside |-> FALSE, k |-> config.k, trace |-> <<>>,
                 log |-> <<>>, valid |-> "unknown", success |-> TRUE,
                 status |-> "none", stderr |-> <<>>, graph |-> FALSE]]
    /\ GenIdle
    /\ conv = Idle
    /\ chunk = Idle
    /\ ToolsIdle

\* std::cerr << "Error: " << message << "\n" on the process that reports
\* errors, then std::exit(1)
ExitWithError(p, message) ==
    [proc[p] EXCEPT !.pc = "exited", !.status = 1,
                    !.stderr = IF OutputError(p) THEN Append(@, "Error: " \o message) ELSE @]

\* lines 115-124: NormalizeParameters, or the report and exit(1) on ConfigurationError
FacadeNormalize(p) ==
    /\ proc[p].pc = "start"
    /\ LET n == FamilyNormalizeParameters(config, NumPE)
       IN  proc' = [proc EXCEPT ![p] =
                IF n.error.thrown
                THEN ExitWithError(p, n.error.what)
                ELSE [@ EXCEPT !.pc = "generate", !.k = n.config.k,
                               !.trace = Append(@, "normalize")]]
    /\ UNCHANGED <<genVars, convVars, toolVars, chunkVars, config>>

\* lines 133-143: Create, Generate, and Finalize unless postprocessing is skipped
FacadeRunGenerator(p) ==
    /\ proc[p].pc = "generate"
    /\ proc' = [proc EXCEPT ![p] =
            [@ EXCEPT !.pc = IF EntersEdgeCountReduces(p) THEN "reduce_before" ELSE "take",
                      !.trace = @ \o <<"create", "generate">>
                                  \o (IF RunsFinalize THEN <<"finalize">> ELSE <<>>)]]
    /\ UNCHANGED <<genVars, convVars, toolVars, chunkVars, config>>

\* a process calls the collective it has reached
EnterCollective(p) ==
    /\ proc[p].pc \in Collectives
    /\ ~proc[p].inside
    /\ proc' = [proc EXCEPT ![p] = [@ EXCEPT !.inside = TRUE, !.log = Append(@, proc[p].pc)]]
    /\ UNCHANGED <<genVars, convVars, toolVars, chunkVars, config>>

\* every process has called the same collective as p's current one
AllEntered(p) ==
    \A q \in Ranks :
        /\ Len(proc[q].log) >= Len(proc[p].log)
        /\ proc[q].log[Len(proc[p].log)] = proc[p].pc

\* MPI_Allreduce returns once every process has contributed, and so does
\* ValidateSimpleGraph, which blocks until every process has called it; a rooted
\* collective returns on the root once every process has contributed and may
\* return earlier on the other processes
CanLeave(p) ==
    /\ proc[p].inside
    /\ (proc[p].pc \in {"validate", "allreduce"} \/ p = ROOT) => AllEntered(p)

\* MPI_LOR over the success flags the processes contributed
AllreduceLOR == \E q \in Ranks : proc[q].valid = "ok"

\* lines 149-150: the two reductions of the edge counts
LeaveReduce(p) ==
    /\ proc[p].pc \in {"reduce_before", "reduce_after"}
    /\ CanLeave(p)
    /\ proc' = [proc EXCEPT ![p] =
            [@ EXCEPT !.inside = FALSE,
                      !.pc = IF proc[p].pc = "reduce_before" THEN "reduce_after" ELSE "take"]]
    /\ UNCHANGED <<genVars, convVars, toolVars, chunkVars, config>>

\* lines 161-164: TakeResult; the validation block follows when enabled
FacadeTakeResult(p) ==
    /\ proc[p].pc = "take"
    /\ proc' = [proc EXCEPT ![p] =
            [@ EXCEPT !.pc = IF config.validate_simple_graph THEN "validate" ELSE AfterValidation,
                      !.trace = Append(@, "take")]]
    /\ UNCHANGED <<genVars, convVars, toolVars, chunkVars, config>>

\* line 169: ValidateSimpleGraph(graph.edges, graph.vertex_range, comm)
\* returns its verdict on the process
LeaveValidate(p) ==
    /\ proc[p].pc = "validate"
    /\ CanLeave(p)
    /\ \E ok \in BOOLEAN :
          proc' = [proc EXCEPT ![p] =
              [@ EXCEPT !.inside = FALSE,
                        !.pc = "allreduce",
                        !.trace = Append(@, "validate"),
                        !.valid = IF ok THEN "ok" ELSE "failed",
                        !.success = ok]]
    /\ UNCHANGED <<genVars, convVars, toolVars, chunkVars, config>>

\* lines 170-178: the reduced flag decides between exit(1) and going on
LeaveAllreduce(p) ==
    /\ proc[p].pc = "allreduce"
    /\ CanLeave(p)
    /\ proc' = [proc EXCEPT ![p] =
            IF ~AllreduceLOR
            THEN [ExitWithError(p, "simple graph validation failed")
                    EXCEPT !.inside = FALSE, !.success = FALSE]
            ELSE [@ EXCEPT !.inside = FALSE, !.success = TRUE, !.pc = AfterValidation]]
    /\ UNCHANGED <<genVars, convVars, toolVars, chunkVars, config>>

\* lines 189-195: PrintBasicStatistics, PrintAdvancedStatistics
LeaveStatistics(p) ==
    /\ proc[p].pc \in {"basic_statistics", "advanced_statistics"}
    /\ CanLeave(p)
    /\ proc' = [proc EXCEPT ![p] =
            [@ EXCEPT !.inside = FALSE,
                      !.pc = IF proc[p].pc = "basic_statistics"
                             THEN AfterBasicStatistics ELSE "return"]]
    /\ UNCHANGED <<genVars, convVars, toolVars, chunkVars, config>>

\* line 198
FacadeReturn(p) ==
    /\ proc[p].pc = "return"
    /\ proc' = [proc EXCEPT ![p] =
            [@ EXCEPT !.pc = "returned", !.trace = Append(@, "return"), !.graph = TRUE]]
    /\ UNCHANGED <<genVars, convVars, toolVars, chunkVars, config>>

NextFacade ==
    \E p \in Ranks :
        \/ FacadeNormalize(p)
        \/ FacadeRunGenerator(p)
        \/ EnterCollective(p)
        \/ LeaveReduce(p)
        \/ FacadeTakeResult(p)
        \/ LeaveValidate(p)
        \/ LeaveAllreduce(p)
        \/ LeaveStatistics(p)
        \/ FacadeReturn(p)

SpecFacade == InitFacade /\ [][NextFacade]_vars

(***************************************************************************)
(* Properties of the facade's Generate.                                    *)
(***************************************************************************)
PastValidation(p) ==
    proc[p].pc \in {"basic_statistics", "advanced_statistics", "return", "returned"}

\* C1: with validate_simple_graph enabled, once ValidateSimpleGraph has failed
\* on some process, no process goes on past the validation or returns a
\* Graph, and every process that ends has exited with a nonzero status.
C1_ValidationFailureStopsEveryProcess ==
    (config.validate_simple_graph /\ \E q \in Ranks : proc[q].valid = "failed") =>
        \A p \in Ranks :
            /\ ~PastValidation(p)
            /\ ~proc[p].graph
            /\ Terminated(p) => (proc[p].pc = "exited" /\ proc[p].status = 1)

IsPrefix(s, t) == Len(s) <= Len(t) /\ s = SubSeq(t, 1, Len(s))

\* the steps of one call, in the order the contract gives them
ExpectedTrace ==
    <<"normalize", "create", "generate">>
        \o (IF config.skip_postprocessing THEN <<>> ELSE <<"finalize">>)
        \o <<"take">>
        \o (IF config.validate_simple_graph THEN <<"validate">> ELSE <<>>)
        \o <<"return">>

\* C7: on every process the steps taken so far are a prefix of normalize,
\* create, generate, finalize (iff skip_postprocessing is false), take,
\* validate (iff enabled), return; a process that returns has taken them all.
C7_Sequencing ==
    \A p \in Ranks :
        /\ IsPrefix(proc[p].trace, ExpectedTrace)
        /\ proc[p].pc = "returned" => proc[p].trace = ExpectedTrace

\* every process has returned from a call that finalized and validated
C7_Witness ==
    /\ ~config.skip_postprocessing
    /\ config.validate_simple_graph
    /\ \A p \in Ranks : proc[p].pc = "returned" /\ Len(proc[p].trace) = 7

NormalizeThrows == FamilyNormalizeParameters(config, NumPE).error.thrown

\* C8: when NormalizeParameters raises ConfigurationError, no process gets
\* past it: each exits with status 1, having constructed no generator and
\* entered no collective, and exactly the ROOT process has reported the
\* error, quiet or not.
C8_ConfigurationErrorIsFatal ==
    NormalizeThrows =>
        \A p \in Ranks :
            /\ proc[p].pc \in {"start", "exited"}
            /\ proc[p].trace = <<>>
            /\ proc[p].log = <<>>
            /\ ~proc[p].graph
            /\ proc[p].pc = "exited" =>
                  /\ proc[p].status = 1
                  /\ (proc[p].stderr # <<>>) <=> (p = ROOT)

\* a quiet run with a non-square chunk count for RGG_2D: all processes have exited
C8_Witness ==
    /\ config.generator = "RGG_2D"
    /\ config.k = 3
    /\ config.quiet
    /\ \A p \in Ranks : proc[p].pc = "exited" /\ proc[p].status = 1
    /\ proc[ROOT].stderr = <<"Error: number of chunks must be square">>

\* some process that has not ended can take a step
SomeProcessCanMove ==
    \E p \in Ranks : ~Terminated(p) /\ (proc[p].inside => CanLeave(p))

\* C9: the processes enter the same collectives in the same order (no two
\* logs differ at a common position, no process has ended having entered
\* fewer collectives than another), and the run is never stuck with a
\* process waiting inside a collective.
C9_SameCollectivesEverywhere ==
    /\ \A p, q \in Ranks :
          /\ \A i \in 1 .. Len(proc[p].log) :
                i <= Len(proc[q].log) => proc[p].log[i] = proc[q].log[i]
          /\ Terminated(q) => Len(proc[p].log) <= Len(proc[q].log)
    /\ (\E p \in Ranks : ~Terminated(p)) => SomeProcessCanMove

\* every process has returned after all six collectives
C9_Witness ==
    \A p \in Ranks :
        /\ proc[p].pc = "returned"
        /\ proc[p].log = <<"reduce_before", "reduce_after", "validate", "allreduce",
                           "basic_statistics", "advanced_statistics">>

(***************************************************************************)
(* The KaGen object of library/kagen.cpp: one configuration object, which  *)
(* every setter and every generation call writes to and which is handed    *)
(* to the facade's Generate by reference.                                  *)
(***************************************************************************)
\* SInt arguments: 0 (not given) or a positive value
ArgValues == {0, 1}

\* a default-constructed PGeneratorConfig after KaGen::SetDefaults. Of its
\* fields these twelve are followed; seed, statistics_level, print_header,
\* hp_floats, plexp, avg_degree, periodic, grid_x/y/z and rmat_a/b/c are
\* written by the functions below as well and are left out here.
KaGenDefaults ==
    [generator |-> "UNDEFINED", n |-> 0, m |-> 0, k |-> 0, p |-> 0, r |-> 0,
     min_degree |-> 0, self_loops |-> FALSE, directed |-> FALSE,
     coordinates |-> FALSE, validate_simple_graph |-> FALSE, quiet |-> TRUE]

\* the setters
KaGenEnableUndirectedGraphVerification(cfg) == [cfg EXCEPT !.validate_simple_graph = TRUE]

KaGenSetNumberOfChunks(cfg, k) == [cfg EXCEPT !.k = k]

\* the generation calls: the configuration each one hands to Generate
GenerateDirectedGNM(cfg, n, m, self_loops) ==
    [cfg EXCEPT !.generator = "GNM_DIRECTED", !.n = n, !.m = m, !.self_loops = self_loops]

GenerateUndirectedGNM(cfg, n, m, self_loops) ==
    [cfg EXCEPT !.generator = "GNM_UNDIRECTED", !.n = n, !.m = m, !.self_loops = self_loops]

GenerateDirectedGNP(cfg, n, p, self_loops) ==
    [cfg EXCEPT !.generator = "GNP_DIRECTED", !.n = n, !.p = p, !.self_loops = self_loops]

GenerateUndirectedGNP(cfg, n, p, self_loops) ==
    [cfg EXCEPT !.generator = "GNP_UNDIRECTED", !.n = n, !.p = p, !.self_loops = self_loops]

GenerateRGG2D_Impl(cfg, n, m, r, coordinates) ==
    [cfg EXCEPT !.generator = "RGG_2D", !.n = n, !.m = m, !.r = r, !.coordinates = coordinates]

GenerateRGG2D(cfg, n, r) == GenerateRGG2D_Impl(cfg, n, 0, r, FALSE)

GenerateRGG2D_NM(cfg, n, m) == GenerateRGG2D_Impl(cfg, n, m, 0, FALSE)

GenerateRGG2D_MR(cfg, m, r) == GenerateRGG2D_Impl(cfg, 0, m, r, FALSE)

GenerateRGG2D_Coordinates(cfg, n, r) == GenerateRGG2D_Impl(cfg, n, 0, r, TRUE)

GenerateBA_Impl(cfg, n, m, d, directed, self_loops) ==
    [cfg EXCEPT !.generator = "BA", !.m = m, !.n = n, !.min_degree = d,
                !.self_loops = self_loops, !.directed = directed]

GenerateBA(cfg, n, d, directed, self_loops) == GenerateBA_Impl(cfg, n, 0, d, directed, self_loops)

GenerateBA_NM(cfg, n, m, directed, self_loops) == GenerateBA_Impl(cfg, n, m, 0, directed, self_loops)

GenerateBA_MD(cfg, m, d, directed, self_loops) == GenerateBA_Impl(cfg, 0, m, d, directed, self_loops)

GenerateRGG3D_Impl(cfg, n, m, r, coordinates) ==
    [cfg EXCEPT !.generator = "RGG_3D", !.m = m, !.n = n, !.r = r, !.coordinates = coordinates]

\* gamma and d go to plexp and avg_degree
GenerateRHG_Impl(cfg, n, m, coordinates) ==
    [cfg EXCEPT !.generator = "RHG", !.n = n, !.m = m, !.coordinates = coordinates]

\* grid_x, grid_y and periodic go to fields of their names
GenerateGrid2D_Impl(cfg, p, m, coordinates) ==
    [cfg EXCEPT !.generator = "GRID_2D", !.p = p, !.m = m, !.coordinates = coordinates]

GenerateGrid3D_Impl(cfg, p, m, coordinates) ==
    [cfg EXCEPT !.generator = "GRID_3D", !.p = p, !.m = m, !.coordinates = coordinates]

GenerateKronecker(cfg, n, m, directed, self_loops) ==
    [cfg EXCEPT !.generator = "KRONECKER", !.n = n, !.m = m,
                !.directed = directed, !.self_loops = self_loops]

\* a, b and c go to rmat_a, rmat_b and rmat_c
GenerateRMAT(cfg, n, m, directed, self_loops) ==
    [cfg EXCEPT !.generator = "RMAT", !.n = n, !.m = m,
                !.directed = directed, !.self_loops = self_loops]

\* without CGAL every GenerateRDG* throws before it writes anything
DelaunayCalls ==
    {"GenerateRDG2D", "GenerateRDG2D_M", "GenerateRDG2D_Coordinates",
     "GenerateRDG3D", "GenerateRDG3D_M", "GenerateRDG3D_Coordinates"}

\* LPFloat arguments: 0.0 or a positive value
FloatValues == {0, 1}

\* a call: the member function and those of its arguments that reach a
\* followed field (a, b the SInt ones and x the LPFloat one, f and g the
\* boolean ones, each in the order of the signature)
KaGenCalls ==
    [fn : {"GenerateDirectedGNM", "GenerateUndirectedGNM"},
     a : ArgValues, b : ArgValues, x : {0}, f : BOOLEAN, g : {FALSE}]
    \cup [fn : {"GenerateRGG2D_NM", "GenerateRGG3D_NM", "GenerateRHG_NM", "GenerateRHG_Coordinates_NM"},
          a : ArgValues, b : ArgValues, x : {0}, f : {FALSE}, g : {FALSE}]
    \cup [fn : {"GenerateDirectedGNP", "GenerateUndirectedGNP"},
          a : ArgValues, b : {0}, x : FloatValues, f : BOOLEAN, g : {FALSE}]
    \cup [fn : {"GenerateRGG2D", "GenerateRGG2D_MR", "GenerateRGG2D_Coordinates",
                "GenerateRGG3D", "GenerateRGG3D_MR", "GenerateRGG3D_Coordinates"},
          a : ArgValues, b : {0}, x : FloatValues, f : {FALSE}, g : {FALSE}]
    \cup [fn : {"GenerateBA", "GenerateBA_NM", "GenerateBA_MD", "GenerateKronecker", "GenerateRMAT"},
          a : ArgValues, b : ArgValues, x : {0}, f : BOOLEAN, g : BOOLEAN]
    \cup [fn : {"GenerateRHG", "GenerateRHG_MD", "GenerateRHG_Coordinates",
                "GenerateRHG_Coordinates_MD", "GenerateGrid2D_NM", "GenerateGrid3D_NM"},
          a : ArgValues, b : {0}, x : {0}, f : {FALSE}, g : {FALSE}]
    \cup [fn : {"GenerateGrid2D", "GenerateGrid2D_N", "GenerateGrid2D_Coordinates",
                "GenerateGrid3D", "GenerateGrid3D_N", "GenerateGrid3D_Coordinates"},
          a : {0}, b : {0}, x : FloatValues, f : {FALSE}, g : {FALSE}]
    \cup [fn : DelaunayCalls, a : {0}, b : {0}, x : {0}, f : {FALSE}, g : {FALSE}]

\* the configuration the call hands to Generate
KaGenCall(cfg, call) ==
    CASE call.fn = "GenerateDirectedGNM" -> GenerateDirectedGNM(cfg, call.a, call.b, call.f)
      [] call.fn = "GenerateUndirectedGNM" -> GenerateUndirectedGNM(cfg, call.a, call.b, call.f)
      [] call.fn = "GenerateDirectedGNP" -> GenerateDirectedGNP(cfg, call.a, call.x, call.f)
      [] call.fn = "GenerateUndirectedGNP" -> GenerateUndirectedGNP(cfg, call.a, call.x, call.f)
      [] call.fn = "GenerateRGG2D" -> GenerateRGG2D(cfg, call.a, call.x)
      [] call.fn = "GenerateRGG2D_NM" -> GenerateRGG2D_NM(cfg, call.a, call.b)
      [] call.fn = "GenerateRGG2D_MR" -> GenerateRGG2D_MR(cfg, call.a, call.x)
      [] call.fn = "GenerateRGG2D_Coordinates" -> GenerateRGG2D_Coordinates(cfg, call.a, call.x)
      [] call.fn = "GenerateRGG3D" -> GenerateRGG3D_Impl(cfg, call.a, 0, call.x, FALSE)
      [] call.fn = "GenerateRGG3D_NM" -> GenerateRGG3D_Impl(cfg, call.a, call.b, 0, FALSE)
      [] call.fn = "GenerateRGG3D_MR" -> GenerateRGG3D_Impl(cfg, 0, call.a, call.x, FALSE)
      [] call.fn = "GenerateRGG3D_Coordinates" -> GenerateRGG3D_Impl(cfg, call.a, 0, call.x, TRUE)
      [] call.fn = "GenerateBA" -> GenerateBA(cfg, call.a, call.b, call.f, call.g)
      [] call.fn = "GenerateBA_NM" -> GenerateBA_NM(cfg, call.a, call.b, call.f, call.g)
      [] call.fn = "GenerateBA_MD" -> GenerateBA_MD(cfg, call.a, call.b, call.f, call.g)
      [] call.fn = "GenerateRHG" -> GenerateRHG_Impl(cfg, call.a, 0, FALSE)
      [] call.fn = "GenerateRHG_NM" -> GenerateRHG_Impl(cfg, call.a, call.b, FALSE)
      [] call.fn = "GenerateRHG_MD" -> GenerateRHG_Impl(cfg, 0, call.a, FALSE)
      [] call.fn = "GenerateRHG_Coordinates" -> GenerateRHG_Impl(cfg, call.a, 0, TRUE)
      [] call.fn = "GenerateRHG_Coordinates_NM" -> GenerateRHG_Impl(cfg, call.a, call.b, TRUE)
      [] call.fn = "GenerateRHG_Coordinates_MD" -> GenerateRHG_Impl(cfg, 0, call.a, TRUE)
      [] call.fn \in {"GenerateGrid2D", "GenerateGrid2D_N"} -> GenerateGrid2D_Impl(cfg, call.x, 0, FALSE)
      [] call.fn = "GenerateGrid2D_NM" -> GenerateGrid2D_Impl(cfg, 0, call.a, FALSE)
      [] call.fn = "GenerateGrid2D_Coordinates" -> GenerateGrid2D_Impl(cfg, call.x, 0, TRUE)
      [] call.fn \in {"GenerateGrid3D", "GenerateGrid3D_N"} -> GenerateGrid3D_Impl(cfg, call.x, 0, FALSE)
      [] call.fn = "GenerateGrid3D_NM" -> GenerateGrid3D_Impl(cfg, 0, call.a, FALSE)
      [] call.fn = "GenerateGrid3D_Coordinates" -> GenerateGrid3D_Impl(cfg, call.x, 0, TRUE)
      [] call.fn = "GenerateKronecker" -> GenerateKronecker(cfg, call.a, call.b, call.f, call.g)
      [] call.fn = "GenerateRMAT" -> GenerateRMAT(cfg, call.a, call.b, call.f, call.g)

\* config: *config_; handed: the configuration the last generation call
\* passed to Generate; call: that call; ncalls: the generation calls made
\* so far; pc: the last operation
\* an option string such as 'type=gnm_undirected;n=1;k=2;k' split at ';':
\* one record per pair, eq telling whether the pair has an equal sign
DecimalText == <<"0", "1", "2", "3", "4", "5", "6", "7", "8", "9">>

OptionPair(key, value) == [key |-> key, eq |-> TRUE, value |-> value]

OptionFlag(key) == [key |-> key, eq |-> FALSE, value |-> ""]

\* the strings handed to GenerateFromOptionString: with a known type, an
\* unknown one or none; with n a numeral, no numeral ('n=abc') or missing;
\* with k a numeral, a flag or missing
OptionStrings ==
    {t \o n \o k :
        t \in {<<>>, <<OptionPair("type", "gnm_undirected")>>, <<OptionPair("type", "rgg2d")>>,
               <<OptionPair("type", "nosuchtype")>>},
        n \in {<<>>, <<OptionPair("n", "abc")>>}
              \cup {<<OptionPair("n", DecimalText[a + 1])>> : a \in ArgValues},
        k \in {<<>>, <<OptionFlag("k")>>}
              \cup {<<OptionPair("k", DecimalText[c + 1])>> : c \in 0 .. MaxChunks}}

\* the map of the pairs: a later pair overwrites an earlier one with the
\* same key, a pair without equal sign is a flag of value "1"
ParseOptionString(options) ==
    [key \in {options[i].key : i \in 1 .. Len(options)} |->
        LET last == CHOOSE i \in 1 .. Len(options) :
                        /\ options[i].key = key
                        /\ \A j \in (i + 1) .. Len(options) : options[j].key # key
        IN  IF options[last].eq THEN options[last].value ELSE "1"]

\* std::stoll and std::stod throw std::invalid_argument on a text that
\* starts with no numeral
StollThrows(text) == \A d \in 0 .. 9 : DecimalText[d + 1] # text

\* std::stoll on a decimal numeral
Stoll(text) == CHOOSE d \in 0 .. 9 : DecimalText[d + 1] = text

\* the names of the generator types
GeneratorTypeMap == [type_str \in {"gnm_undirected", "rgg2d"} |->
                        IF type_str = "rgg2d" THEN "RGG_2D" ELSE "GNM_UNDIRECTED"]

\* options["type"]: the empty string when the key is missing
OptionType(options) == IF "type" \in DOMAIN options THEN options["type"] ELSE ""

get_sint_or_default(options, option, default_value) ==
    IF option \in DOMAIN options THEN Stoll(options[option]) ELSE default_value

get_bool_or_default(options, option, default_value) ==
    IF option \in DOMAIN options
    THEN options[option] \in {"1", "true", "yes"}
    ELSE default_value

\* the conversion of one of the given options throws
OptionThrows(options, keys) ==
    \E key \in keys : key \in DOMAIN options /\ StollThrows(options[key])

\* GenericGenerateFromOptionString for a known type: the assignments in
\* their order, every option without a key getting its default, up to the
\* first conversion that throws. config is the configuration as written,
\* thrown tells whether Generate was not reached.
GenericGenerateFromOptionString(options_str, cfg) ==
    LET options == ParseOptionString(options_str)
        c1 == [cfg EXCEPT !.generator = GeneratorTypeMap[OptionType(options)]]
        c2 == [c1 EXCEPT !.n = get_sint_or_default(options, "n",
                                    2 ^ get_sint_or_default(options, "N", 0))]
        c3 == [c2 EXCEPT !.m = get_sint_or_default(options, "m",
                                    2 ^ get_sint_or_default(options, "M", 0))]
        c4 == [c3 EXCEPT !.k = get_sint_or_default(options, "k", 0)]
        c5 == [c4 EXCEPT !.p = get_sint_or_default(options, "prob", 0)]
        c6 == [c5 EXCEPT !.r = get_sint_or_default(options, "radius", 0)]
        c7 == [c6 EXCEPT !.min_degree = get_sint_or_default(options, "min_degree", 0)]
        c8 == [c7 EXCEPT !.coordinates = get_bool_or_default(options, "coordinates", FALSE)]
    IN  CASE OptionThrows(options, {"N", "n"}) -> [config |-> c1, thrown |-> TRUE]
          [] OptionThrows(options, {"M", "m"}) -> [config |-> c2, thrown |-> TRUE]
          [] OptionThrows(options, {"k"}) -> [config |-> c3, thrown |-> TRUE]
          [] OptionThrows(options, {"prob"}) -> [config |-> c4, thrown |-> TRUE]
          [] OptionThrows(options, {"radius"}) -> [config |-> c5, thrown |-> TRUE]
          [] OptionThrows(options, {"gamma", "avg_degree", "min_degree"}) ->
                [config |-> c6, thrown |-> TRUE]
          [] OptionThrows(options, {"grid_x", "grid_y", "grid_z", "rmat_a", "rmat_b", "rmat_c"}) ->
                [config |-> c7, thrown |-> TRUE]
          [] OTHER -> [config |-> c8, thrown |-> FALSE]

\* the configuration of a newly constructed object on which the setters
\* were called as they were on the object obj: k is the argument of its
\* last SetNumberOfChunks (a generation call from an option string writes
\* k as well, so obj.config.k need not be that value); only the setters
\* write validate_simple_graph and quiet
FreshWithSetters(obj) ==
    [KaGenDefaults EXCEPT !.k = IF obj.chunks = <<>> THEN KaGenDefaults.k ELSE obj.chunks[1],
                          !.validate_simple_graph = obj.config.validate_simple_graph,
                          !.quiet = obj.config.quiet]

\* handed: the configuration the generation call just made handed to
\* Generate; fresh: the one the same call hands over on a new object with
\* the same setter values (both KaGenDefaults when the last step was no
\* generation call that reached Generate); chunks: the argument of the last SetNumberOfChunks (<<>>:
\* none yet); optioned: GenerateFromOptionString was called on the object
InitKaGen ==
    /\ kagen = [pc |-> "constructed", config |-> KaGenDefaults, handed |-> KaGenDefaults,
                fresh |-> KaGenDefaults, ncalls |-> 0, chunks |-> <<>>, optioned |-> FALSE]
    /\ GenIdle
    /\ conv = Idle
    /\ chunk = Idle
    /\ config = Idle
    /\ proc = Idle
    /\ filt = Idle /\ lib = Idle /\ post = Idle /\ chk = Idle

KaGenSetChunks ==
    \E k \in 0 .. MaxChunks :
        /\ kagen' = [kagen EXCEPT !.pc = "set",
                                  !.config = KaGenSetNumberOfChunks(kagen.config, k),
                                  !.handed = KaGenDefaults,
                                  !.fresh = KaGenDefaults,
                                  !.chunks = <<k>>]
        /\ UNCHANGED <<genVars, convVars, chunkVars, facadeVars, filt, lib, post, chk>>

KaGenEnableVerification ==
    /\ kagen' = [kagen EXCEPT !.pc = "set",
                              !.config = KaGenEnableUndirectedGraphVerification(kagen.config),
                              !.handed = KaGenDefaults,
                              !.fresh = KaGenDefaults]
    /\ UNCHANGED <<genVars, convVars, chunkVars, facadeVars, filt, lib, post, chk>>

\* EnableBasicStatistics, EnableAdvancedStatistics and EnableOutput: each
\* sets quiet to false, beside statistics_level or print_header
KaGenEnableOutput ==
    /\ kagen' = [kagen EXCEPT !.pc = "set", !.config.quiet = FALSE,
                              !.handed = KaGenDefaults, !.fresh = KaGenDefaults]
    /\ UNCHANGED <<genVars, convVars, chunkVars, facadeVars, filt, lib, post, chk>>

\* a Generate* call; the GenerateRDG* throw and write nothing
KaGenGenerate ==
    \E call \in KaGenCalls :
        /\ kagen.ncalls < MaxCalls
        /\ IF call.fn \in DelaunayCalls
           THEN kagen' = [kagen EXCEPT !.pc = "threw",
                                       !.handed = KaGenDefaults,
                                       !.fresh = KaGenDefaults,
                                       !.ncalls = kagen.ncalls + 1]
           ELSE kagen' = [kagen EXCEPT !.pc = "called",
                                       !.config = KaGenCall(kagen.config, call),
                                       !.handed = KaGenCall(kagen.config, call),
                                       !.fresh = KaGenCall(FreshWithSetters(kagen), call),
                                       !.ncalls = kagen.ncalls + 1]
        /\ UNCHANGED <<genVars, convVars, chunkVars, facadeVars, filt, lib, post, chk>>

\* GenerateFromOptionString, and GenerateFromOptionString2D / 3D, which
\* append ';coordinates' to the string: an unknown type throws before the
\* configuration is written, a conversion that throws leaves it half written
KaGenGenerateFromOptionString ==
    \E options \in OptionStrings, coordinates \in BOOLEAN :
        LET options_str == IF coordinates THEN options \o <<OptionFlag("coordinates")>> ELSE options
            generic == GenericGenerateFromOptionString(options_str, kagen.config)
        IN  /\ kagen.ncalls < MaxCalls
            /\ kagen' =
                 IF OptionType(ParseOptionString(options_str)) \notin DOMAIN GeneratorTypeMap
                 THEN [kagen EXCEPT !.pc = "threw",
                                    !.handed = KaGenDefaults,
                                    !.fresh = KaGenDefaults,
                                    !.optioned = TRUE,
                                    !.ncalls = kagen.ncalls + 1]
                 ELSE IF generic.thrown
                 THEN [kagen EXCEPT !.pc = "threw",
                                    !.config = generic.config,
                                    !.handed = KaGenDefaults,
                                    !.fresh = KaGenDefaults,
                                    !.optioned = TRUE,
                                    !.ncalls = kagen.ncalls + 1]
                 ELSE [kagen EXCEPT !.pc = "called_options",
                                    !.config = generic.config,
                                    !.handed = generic.config,
                                    !.fresh = KaGenDefaults,
                                    !.optioned = TRUE,
                                    !.ncalls = kagen.ncalls + 1]
            /\ UNCHANGED <<genVars, convVars, chunkVars, facadeVars, filt, lib, post, chk>>

NextKaGen ==
    \/ KaGenSetChunks
    \/ KaGenEnableVerification
    \/ KaGenEnableOutput
    \/ KaGenGenerate
    \/ KaGenGenerateFromOptionString

SpecKaGen == InitKaGen /\ [][NextKaGen]_vars

\* C16: the configuration a generation call hands to Generate is the one the
\* same call hands over on a newly constructed object with the same setter
\* values, whatever generation calls were made before.
C16_CallsArePure ==
    kagen.pc = "called" => kagen.handed = kagen.fresh

\* C24: once SetNumberOfChunks(k) was called, every later generation call
\* hands k to Generate as the chunk count, GenerateFromOptionString
\* included, until SetNumberOfChunks is called again.
C24_ChunkCountPersists ==
    (kagen.pc \in {"called", "called_options"} /\ kagen.chunks # <<>>)
        => kagen.handed.k = kagen.chunks[1]

\* the same for the calls other than GenerateFromOptionString, before any
\* GenerateFromOptionString on the object
C24_PersistsWithoutOptionStrings ==
    (kagen.pc = "called" /\ kagen.chunks # <<>> /\ ~kagen.optioned)
        => kagen.handed.k = kagen.chunks[1]

(***************************************************************************)
(* The KaGen object of library/kagen_library.cpp, constructed with a rank  *)
(* and a process count: the program of one process.                        *)
(***************************************************************************)
REDISTRIBUTE_GRAPH == "REDISTRIBUTE_GRAPH"
FIX_UNDIRECTED_EDGE_LIST == "FIX_UNDIRECTED_EDGE_LIST"
VALIDATE_RANGES_CONSECUTIVE == "VALIDATE_RANGES_CONSECUTIVE"
VALIDATE_UNDIRECTED == "VALIDATE_UNDIRECTED"

\* the generation calls that run no postprocessing at all
LibDirected == {"GenerateDirectedGMM", "GenerateDirectedGNP"}

LibFunctions ==
    LibDirected \cup
    {"GenerateUndirectedGNM", "GenerateUndirectedGNP", "Generate2DRGG", "Generate3DRGG",
     "GenerateBA", "GenerateRHG", "Generate2DGrid", "GenerateKronecker"}

\* config_->k = (k == 0 ? config_->k : k)
LibUpdateK(config_k, k) == IF k = 0 THEN config_k ELSE k

\* the Postprocess calls of a function with VALIDATE_UNDIRECTED put first
LibPostprocessingValidateFirst(fn, validate_undirected_graph) ==
    (IF fn \notin LibDirected /\ validate_undirected_graph THEN <<VALIDATE_UNDIRECTED>> ELSE <<>>)
    \o (CASE fn \in {"GenerateUndirectedGNM", "GenerateBA"} -> <<REDISTRIBUTE_GRAPH>>
          [] fn \in {"Generate2DRGG", "Generate3DRGG"} -> <<VALIDATE_RANGES_CONSECUTIVE>>
          [] fn = "GenerateRHG" -> <<FIX_UNDIRECTED_EDGE_LIST>>
          [] OTHER -> <<>>)

\* the Postprocess calls of a function, in program order
LibPostprocessing(fn, validate_undirected_graph) ==
    (CASE fn \in {"GenerateUndirectedGNM", "GenerateBA"} -> <<REDISTRIBUTE_GRAPH>>
       [] fn \in {"Generate2DRGG", "Generate3DRGG"} -> <<VALIDATE_RANGES_CONSECUTIVE>>
       [] fn = "GenerateRHG" -> <<FIX_UNDIRECTED_EDGE_LIST>>
       [] OTHER -> <<>>)
    \o (IF fn \notin LibDirected /\ validate_undirected_graph THEN <<VALIDATE_UNDIRECTED>> ELSE <<>>)

\* size: size_; k: config_->k; validate_undirected_graph: the member flag;
\* call: the running (or last) generation call, and whether
\* EnableUndirectedGraphVerification had been called before it; gen_k: the k of the
\* configuration its generator was constructed with; todo: the Postprocess
\* calls still ahead; trace: what the call has done so far;
\* enabled: EnableUndirectedGraphVerification was called on the object
InitLib ==
    /\ \E size \in 1 .. MaxSize :
          lib = [pc |-> "ready", size |-> size, k |-> size,
                 validate_undirected_graph |-> FALSE,
                 call |-> [fn |-> "none", k |-> 0, enabled |-> FALSE], gen_k |-> 0,
                 todo |-> <<>>, trace |-> <<>>, enabled |-> FALSE, ncalls |-> 0]
    /\ GenIdle
    /\ conv = Idle
    /\ chunk = Idle
    /\ config = Idle
    /\ proc = Idle
    /\ filt = Idle /\ kagen = Idle /\ post = Idle /\ chk = Idle

LibEnableUndirectedGraphVerification ==
    /\ lib.pc = "ready"
    /\ lib' = [lib EXCEPT !.validate_undirected_graph = TRUE, !.enabled = TRUE]
    /\ UNCHANGED <<genVars, convVars, chunkVars, facadeVars, filt, kagen, post, chk>>

\* "Update config" and the construction of the generator from *config_
LibCall ==
    \E fn \in LibFunctions, k \in 0 .. MaxChunks :
        /\ lib.pc = "ready"
        /\ lib.ncalls < MaxCalls
        /\ lib' = [lib EXCEPT !.pc = "constructed",
                              !.k = LibUpdateK(lib.k, k),
                              !.call = [fn |-> fn, k |-> k, enabled |-> lib.enabled],
                              !.gen_k = LibUpdateK(lib.k, k),
                              !.todo = <<>>,
                              !.trace = <<>>,
                              !.ncalls = lib.ncalls + 1]
        /\ UNCHANGED <<genVars, convVars, chunkVars, facadeVars, filt, kagen, post, chk>>

\* gen.Generate()
LibRunGenerator ==
    /\ lib.pc = "constructed"
    /\ lib' = [lib EXCEPT !.pc = "generated",
                          !.todo = LibPostprocessing(lib.call.fn, lib.validate_undirected_graph),
                          !.trace = Append(lib.trace, "Generate")]
    /\ UNCHANGED <<genVars, convVars, chunkVars, facadeVars, filt, kagen, post, chk>>

\* Postprocess(step, gen): a blocking call
LibPostprocess ==
    /\ lib.pc = "generated"
    /\ lib.todo # <<>>
    /\ lib' = [lib EXCEPT !.todo = Tail(lib.todo),
                          !.trace = Append(lib.trace, Head(lib.todo))]
    /\ UNCHANGED <<genVars, convVars, chunkVars, facadeVars, filt, kagen, post, chk>>

\* return {std::move(gen.IO().GetEdges()), gen.GetVertexRange()}
LibReturn ==
    /\ lib.pc = "generated"
    /\ lib.todo = <<>>
    /\ lib' = [lib EXCEPT !.pc = "ready", !.trace = Append(lib.trace, "MoveEdges")]
    /\ UNCHANGED <<genVars, convVars, chunkVars, facadeVars, filt, kagen, post, chk>>

NextLib ==
    \/ LibEnableUndirectedGraphVerification
    \/ LibCall
    \/ LibRunGenerator
    \/ LibPostprocess
    \/ LibReturn

SpecLib == InitLib /\ [][NextLib]_vars

\* C17: a generation call that passes k = 0 constructs its generator with
\* k equal to the process count, whatever calls were made before.
C17_UnsetKIsProcessCount ==
    (lib.pc \in {"constructed", "generated"} /\ lib.call.k = 0) => lib.gen_k = lib.size

PostprocessingSteps ==
    {REDISTRIBUTE_GRAPH, FIX_UNDIRECTED_EDGE_LIST, VALIDATE_RANGES_CONSECUTIVE, VALIDATE_UNDIRECTED}

\* the step a family always gets
UnconditionalStep(fn) ==
    CASE fn \in {"GenerateUndirectedGNM", "GenerateBA"} -> <<REDISTRIBUTE_GRAPH>>
      [] fn = "GenerateRHG" -> <<FIX_UNDIRECTED_EDGE_LIST>>
      [] fn \in {"Generate2DRGG", "Generate3DRGG"} -> <<VALIDATE_RANGES_CONSECUTIVE>>
      [] OTHER -> <<>>

\* inside a generation call every postprocessing step comes after the
\* generator ran and before the edges are moved out, each step at most once
StepsAfterGeneration ==
    \A i \in 1 .. Len(lib.trace) :
        lib.trace[i] \in PostprocessingSteps =>
            /\ \E j \in 1 .. (i - 1) : lib.trace[j] = "Generate"
            /\ \A j \in 1 .. (i - 1) : lib.trace[j] # "MoveEdges"
            /\ \A j \in 1 .. (i - 1) : lib.trace[j] # lib.trace[i]

\* C20 as stated: every postprocessing step runs after generation, one at a
\* time; a returned call has run its family's unconditional step first, then
\* VALIDATE_UNDIRECTED if and only if EnableUndirectedGraphVerification was
\* called before the call, and moved the edges out right after.
\* EnableUndirectedGraphVerification followed by GenerateDirectedGMM or
\* GenerateDirectedGNP refutes it: these two never call Postprocess.
C20_ValidatesIffEnabled ==
    /\ StepsAfterGeneration
    /\ (lib.pc = "ready" /\ lib.ncalls > 0) =>
          lib.trace = <<"Generate">>
                      \o UnconditionalStep(lib.call.fn)
                      \o (IF lib.call.enabled THEN <<VALIDATE_UNDIRECTED>> ELSE <<>>)
                      \o <<"MoveEdges">>

\* C20, amended: inside a generation call every postprocessing step comes
\* after the generator ran and before the edges are moved out, one after the
\* other; a returned call has run its family's unconditional step first and
\* then VALIDATE_UNDIRECTED exactly when EnableUndirectedGraphVerification
\* was called before the call and the call is neither GenerateDirectedGMM nor
\* GenerateDirectedGNP (these two run no step at all, enabled or not), and
\* moved the edges out right after.
C20_PostprocessingAfterGeneration ==
    /\ StepsAfterGeneration
    /\ (lib.pc = "ready" /\ lib.ncalls > 0) =>
          lib.trace = <<"Generate">>
                      \o UnconditionalStep(lib.call.fn)
                      \o (IF lib.call.enabled /\ lib.call.fn \notin LibDirected
                          THEN <<VALIDATE_UNDIRECTED>> ELSE <<>>)
                      \o <<"MoveEdges">>

\* a returned GenerateRHG with verification enabled before it
C20_Witness ==
    /\ lib.pc = "ready"
    /\ lib.call.fn = "GenerateRHG"
    /\ lib.call.enabled
    /\ lib.trace = <<"Generate", FIX_UNDIRECTED_EDGE_LIST, VALIDATE_UNDIRECTED, "MoveEdges">>

(***************************************************************************)
(* chkgraph (app/tools/chkgraph.cpp): every process computes the vertex    *)
(* range it reads. SInt values stay far below 2^64 here.                   *)
(***************************************************************************)
Min(a, b) == IF a <= b THEN a ELSE b

\* ComputeRange without the remainder: every rank gets n / size vertices
ComputeRangeNoRemainder(n, size, rank) ==
    LET chunk_ == n \div size
        from == rank * chunk_
    IN  <<from, Min(from + chunk_, n)>>

\* chunk_ is the code's local variable chunk
ComputeRange(n, size, rank) ==
    LET chunk_ == n \div size
        rem == n % size
        from == rank * chunk_ + Min(rank, rem)
        to == Min(from + (IF rank < rem THEN chunk_ + 1 ELSE chunk_), n)
    IN  <<from, to>>

NoRange == <<>>

\* n: the vertex count read from the file; size: the process count;
\* range: per rank, the range it computed (NoRange before)
InitChk ==
    /\ \E n \in 0 .. MaxN, size \in 1 .. MaxSize :
          chk = [n |-> n, size |-> size, range |-> [rank \in 0 .. (size - 1) |-> NoRange]]
    /\ GenIdle
    /\ conv = Idle
    /\ chunk = Idle
    /\ config = Idle
    /\ proc = Idle
    /\ filt = Idle /\ kagen = Idle /\ lib = Idle /\ post = Idle

\* const auto [from, to] = ComputeRange(n, size, rank)
ChkComputeRange ==
    \E rank \in DOMAIN chk.range :
        /\ chk.range[rank] = NoRange
        /\ chk' = [chk EXCEPT !.range[rank] = ComputeRange(chk.n, chk.size, rank)]
        /\ UNCHANGED <<genVars, convVars, chunkVars, facadeVars, filt, kagen, lib, post>>

NextChk == ChkComputeRange

SpecChk == InitChk /\ [][NextChk]_vars

ChkComputed == {rank \in DOMAIN chk.range : chk.range[rank] # NoRange}

\* C19: the ranges of the ranks are intervals inside [0, n), rank 0 starts
\* at 0, the last rank ends at n, each rank starts where the rank before it
\* ends (so they are disjoint, increasing and leave no gap), every vertex
\* lies in exactly one range once all ranks have theirs, and two lengths
\* differ by at most one.
C19_RangesPartition ==
    /\ \A r \in ChkComputed :
          /\ 0 <= chk.range[r][1] /\ chk.range[r][1] <= chk.range[r][2] /\ chk.range[r][2] <= chk.n
          /\ (r = 0 => chk.range[r][1] = 0)
          /\ (r = chk.size - 1 => chk.range[r][2] = chk.n)
          /\ (r + 1 \in ChkComputed => chk.range[r][2] = chk.range[r + 1][1])
    /\ \A r, q \in ChkComputed :
          RangeSize(chk.range[r]) - RangeSize(chk.range[q]) \in {-1, 0, 1}
    /\ (ChkComputed = DOMAIN chk.range) =>
          \A v \in 0 .. (chk.n - 1) :
              Cardinality({r \in ChkComputed :
                              chk.range[r][1] <= v /\ v < chk.range[r][2]}) = 1

\* seven vertices on three processes: every rank has its range, of
\* lengths 3, 2 and 2
C19_Witness ==
    /\ chk.n = 7
    /\ chk.size = 3
    /\ ChkComputed = DOMAIN chk.range
    /\ chk.range[0] = <<0, 3>>
    /\ chk.range[1] = <<3, 5>>
    /\ chk.range[2] = <<5, 7>>

(***************************************************************************)
(* chkgraph's verdict (app/tools/chkgraph.cpp, main from the checks on):   *)
(* NumPE processes, each with its own has_warned, meet in one              *)
(* MPI_Allreduce and then print, abort or return.                          *)
(***************************************************************************)
\* MPI_LAND in place of MPI_LOR
LogicalAnd(flags) == \A r \in DOMAIN flags : flags[r]

\* MPI_LOR of one flag per process
LogicalOr(flags) == \E r \in DOMAIN flags : flags[r]

\* pc: where each process is; has_warned: its variable; sent: what it
\* contributed to the reduction; printed: the ranks that printed "Graph OK";
\* result: what main returned
InitVerdict ==
    /\ \E quiet \in BOOLEAN :
          chk = [pc |-> [r \in Ranks |-> "checks"],
                 quiet |-> quiet,
                 has_warned |-> [r \in Ranks |-> FALSE],
                 sent |-> [r \in Ranks |-> FALSE],
                 printed |-> {},
                 result |-> [r \in Ranks |-> FALSE]]
    /\ GenIdle
    /\ conv = Idle
    /\ chunk = Idle
    /\ config = Idle
    /\ proc = Idle
    /\ filt = Idle /\ kagen = Idle /\ lib = Idle /\ post = Idle

\* the checks of the sizes and weights of the process's part of the
\* graph; the process then calls ValidateGraph
ChkLocalChecks ==
    \E rank \in Ranks, warned \in BOOLEAN :
        /\ chk.pc[rank] = "checks"
        /\ chk' = [chk EXCEPT !.pc[rank] = "validate", !.has_warned[rank] = warned]
        /\ UNCHANGED <<genVars, convVars, chunkVars, facadeVars, filt, kagen, lib, post>>

\* has_warned |= !ValidateGraph(..., MPI_COMM_WORLD): a process leaves the
\* call once every process has entered it
ChkValidateGraph ==
    \E rank \in Ranks, valid \in BOOLEAN :
        /\ chk.pc[rank] = "validate"
        /\ \A r \in Ranks : chk.pc[r] # "checks"
        /\ chk' = [chk EXCEPT !.pc[rank] = "allreduce",
                              !.has_warned[rank] = chk.has_warned[rank] \/ ~valid,
                              !.sent[rank] = chk.has_warned[rank] \/ ~valid]
        /\ UNCHANGED <<genVars, convVars, chunkVars, facadeVars, filt, kagen, lib, post>>

\* MPI_Allreduce(MPI_IN_PLACE, &has_warned, 1, MPI_C_BOOL, MPI_LOR): a
\* process leaves it once every process has entered it
ChkAllreduce ==
    \E rank \in Ranks :
        /\ chk.pc[rank] = "allreduce"
        /\ \A r \in Ranks : chk.pc[r] \notin {"checks", "validate"}
        /\ chk' = [chk EXCEPT !.pc[rank] = "print",
                              !.has_warned[rank] = LogicalOr(chk.sent)]
        /\ UNCHANGED <<genVars, convVars, chunkVars, facadeVars, filt, kagen, lib, post>>

\* if (!has_warned && !quiet && rank == 0) std::cout << "Graph OK"
ChkPrint ==
    \E rank \in Ranks :
        /\ chk.pc[rank] = "print"
        /\ chk' = [chk EXCEPT !.pc[rank] = "decide",
                              !.printed = IF ~chk.has_warned[rank] /\ ~chk.quiet /\ rank = 0
                                          THEN chk.printed \cup {rank}
                                          ELSE chk.printed]
        /\ UNCHANGED <<genVars, convVars, chunkVars, facadeVars, filt, kagen, lib, post>>

\* if (has_warned) MPI_Abort(MPI_COMM_WORLD, 1); MPI_Finalize(); return has_warned
ChkDecide ==
    \E rank \in Ranks :
        /\ chk.pc[rank] = "decide"
        /\ chk' = [chk EXCEPT !.pc[rank] = IF chk.has_warned[rank] THEN "aborted" ELSE "returned",
                              !.result[rank] = chk.has_warned[rank]]
        /\ UNCHANGED <<genVars, convVars, chunkVars, facadeVars, filt, kagen, lib, post>>

\* MPI_Abort of one process ends the other processes of the communicator
\* wherever they are
ChkKilled ==
    \E rank \in Ranks :
        /\ \E r \in Ranks : chk.pc[r] = "aborted"
        /\ chk.pc[rank] \notin {"aborted", "returned", "killed"}
        /\ chk' = [chk EXCEPT !.pc[rank] = "killed"]
        /\ UNCHANGED <<genVars, convVars, chunkVars, facadeVars, filt, kagen, lib, post>>

NextVerdict ==
    ChkLocalChecks \/ ChkValidateGraph \/ ChkAllreduce \/ ChkPrint \/ ChkDecide \/ ChkKilled

SpecVerdict == InitVerdict /\ [][NextVerdict]_vars

AfterAllreduce == {"print", "decide", "aborted", "returned"}

\* C25: a process that has left the reduction holds the disjunction of the
\* flags of all processes, so all of them hold the same verdict; when some
\* process warned no process returns (each aborts, or is ended by the abort
\* of another) and no process prints "Graph OK"; when none warned no
\* process aborts and each returns 0; only rank 0 prints, and only when
\* not quiet.
C25_VerdictAgreed ==
    /\ \A r \in Ranks :
          /\ chk.pc[r] \in AfterAllreduce => chk.has_warned[r] = (\E q \in Ranks : chk.sent[q])
          /\ chk.pc[r] = "aborted" => (\E q \in Ranks : chk.sent[q])
          /\ chk.pc[r] = "killed" => (\E q \in Ranks : chk.sent[q])
          /\ chk.pc[r] = "returned" => (~chk.result[r] /\ \A q \in Ranks : ~chk.sent[q])
    /\ \A r, q \in Ranks :
          (chk.pc[r] \in AfterAllreduce /\ chk.pc[q] \in AfterAllreduce)
              => chk.has_warned[r] = chk.has_warned[q]
    /\ chk.printed # {} =>
          /\ chk.printed = {0}
          /\ ~chk.quiet
          /\ \A q \in Ranks : ~chk.sent[q]

\* rank 1 warned and rank 0 did not: rank 0 aborted all the same and
\* nothing was printed
C25_Witness ==
    /\ chk.sent[1] /\ ~chk.sent[0]
    /\ chk.pc[0] = "aborted"
    /\ chk.has_warned[0]
    /\ chk.printed = {}
    /\ ~chk.quiet

(***************************************************************************)
(* chkgraph's redistribution (app/tools/chkgraph.cpp, main after Read, for *)
(* a reader with REQUIRES_REDISTRIBUTION): NumPE processes, each with the  *)
(* edges it read, compute actual_n, meet in one MPI_Allreduce and create   *)
(* the vertex ranges handed to AddReverseEdgesAndRedistribute.             *)
(***************************************************************************)
MaxReadEdges == 2

MaxVertexId == 2

ReadEdgeLists ==
    UNION {[1 .. len -> (0 .. MaxVertexId) \X (0 .. MaxVertexId)] : len \in 0 .. MaxReadEdges}

Max(a, b) == IF a >= b THEN a ELSE b

\* SInt actual_n = 0; for (const auto& [u, v]: graph.edges)
\*     actual_n = std::max(n, std::max(u, v));
RECURSIVE ScanEdges(_, _, _)
ScanEdges(actual_n, n, edges) ==
    IF edges = <<>>
    THEN actual_n
    ELSE ScanEdges(Max(n, Max(Head(edges)[1], Head(edges)[2])), n, Tail(edges))

\* MPI_MAX of one value per process
MaxOf(values) == CHOOSE x \in {values[r] : r \in DOMAIN values} :
                    \A r \in DOMAIN values : values[r] <= x

\* the edges the processes hold that have their tail in the given range,
\* in the order of the holders' ranks
RECURSIVE EdgesWithTailIn(_, _, _)
EdgesWithTailIn(edges, range, q) ==
    IF q \notin DOMAIN edges THEN <<>>
    ELSE SelectSeq(edges[q], LAMBDA e : range[1] <= e[1] /\ e[1] < range[2])
            \o EdgesWithTailIn(edges, range, q + 1)

\* n: per process, the vertex count ReadSize returned (the same on all);
\* read: the edges the process read; edges: graph.edges; actual_n: its
\* variable; sent: what it contributed to the reduction; range:
\* graph.vertex_range; stderr, status: what it wrote and how it exited
InitRedistribute ==
    /\ \E n \in 0 .. MaxVertexId, read \in [Ranks -> ReadEdgeLists], quiet \in BOOLEAN :
          chk = [pc |-> [r \in Ranks |-> "read"],
                 quiet |-> quiet,
                 n |-> [r \in Ranks |-> n],
                 read |-> read,
                 edges |-> [r \in Ranks |-> <<>>],
                 actual_n |-> [r \in Ranks |-> 0],
                 sent |-> [r \in Ranks |-> 0],
                 range |-> [r \in Ranks |-> NoRange],
                 stderr |-> [r \in Ranks |-> <<>>],
                 status |-> [r \in Ranks |-> 0]]
    /\ GenIdle
    /\ conv = Idle
    /\ chunk = Idle
    /\ config = Idle
    /\ proc = Idle
    /\ filt = Idle /\ kagen = Idle /\ lib = Idle /\ post = Idle

\* reader->ReadSize() and reader->Read(...) return
ChkRead ==
    \E rank \in Ranks :
        /\ chk.pc[rank] = "read"
        /\ chk' = [chk EXCEPT !.pc[rank] = "scan", !.edges[rank] = chk.read[rank]]
        /\ UNCHANGED <<genVars, convVars, chunkVars, facadeVars, filt, kagen, lib, post>>

\* one of them throws IOError: "Error: " and its what() (here "cannot read
\* graph") on stderr unless quiet, then std::exit(1)
ChkIOError ==
    \E rank \in Ranks :
        /\ chk.pc[rank] = "read"
        /\ chk' = [chk EXCEPT !.pc[rank] = "exited",
                              !.status[rank] = 1,
                              !.stderr[rank] = IF chk.quiet THEN <<>>
                                               ELSE <<"Error: " \o "cannot read graph">>]
        /\ UNCHANGED <<genVars, convVars, chunkVars, facadeVars, filt, kagen, lib, post>>

ChkScanEdges ==
    \E rank \in Ranks :
        /\ chk.pc[rank] = "scan"
        /\ chk' = [chk EXCEPT !.pc[rank] = "allreduce",
                              !.actual_n[rank] = ScanEdges(0, chk.n[rank], chk.edges[rank]),
                              !.sent[rank] = ScanEdges(0, chk.n[rank], chk.edges[rank])]
        /\ UNCHANGED <<genVars, convVars, chunkVars, facadeVars, filt, kagen, lib, post>>

\* MPI_Allreduce(MPI_IN_PLACE, &actual_n, 1, KAGEN_MPI_SINT, MPI_MAX): a
\* process leaves it once every process has entered it
ChkAllreduceMax ==
    \E rank \in Ranks :
        /\ chk.pc[rank] = "allreduce"
        /\ \A r \in Ranks : chk.pc[r] \notin {"read", "scan", "exited"}
        /\ chk' = [chk EXCEPT !.pc[rank] = "distribute",
                              !.actual_n[rank] = MaxOf(chk.sent)]
        /\ UNCHANGED <<genVars, convVars, chunkVars, facadeVars, filt, kagen, lib, post>>

\* ++n; graph.vertex_range = ComputeRange(actual_n, size, rank); the
\* process then calls AddReverseEdgesAndRedistribute
ChkCreateDistribution ==
    \E rank \in Ranks :
        /\ chk.pc[rank] = "distribute"
        /\ chk' = [chk EXCEPT !.pc[rank] = "redistribute",
                              !.n[rank] = chk.n[rank] + 1,
                              !.range[rank] = ComputeRange(chk.actual_n[rank], NumPE, rank)]
        /\ UNCHANGED <<genVars, convVars, chunkVars, facadeVars, filt, kagen, lib, post>>

\* AddReverseEdgesAndRedistribute(graph.edges, graph.vertex_range, false,
\* MPI_COMM_WORLD): a process leaves it, once every process has entered
\* it, with the edges of all processes whose tail is in its range. What
\* becomes of an edge whose tail is in no range is not defined: here the
\* process gets all of them or none.
ChkRedistribute ==
    \E rank \in Ranks, strays \in BOOLEAN :
        /\ chk.pc[rank] = "redistribute"
        /\ \A r \in Ranks : chk.pc[r] \in {"redistribute", "redistributed"}
        /\ chk' = [chk EXCEPT
                !.pc[rank] = "redistributed",
                !.edges[rank] =
                    EdgesWithTailIn(chk.read, chk.range[rank], 0)
                        \o (IF strays
                            THEN EdgesWithTailIn(chk.read, <<chk.range[NumPE - 1][2], MaxVertexId + 1>>, 0)
                            ELSE <<>>)]
        /\ UNCHANGED <<genVars, convVars, chunkVars, facadeVars, filt, kagen, lib, post>>

NextRedistribute ==
    \/ ChkRead
    \/ ChkIOError
    \/ ChkScanEdges
    \/ ChkAllreduceMax
    \/ ChkCreateDistribution
    \/ ChkRedistribute

SpecRedistribute == InitRedistribute /\ [][NextRedistribute]_vars

\* the common upper bound of the ranges: where the last rank's range ends
UpperBound == chk.range[NumPE - 1][2]

RangesCreated == \A r \in Ranks : chk.range[r] # NoRange

\* once every process has its range: the ranges are consecutive from 0 to N
RangesPartitionUpperBound ==
    RangesCreated =>
        /\ chk.range[0][1] = 0
        /\ \A r \in Ranks :
              /\ chk.range[r][1] <= chk.range[r][2]
              /\ (r + 1 \in Ranks => chk.range[r][2] = chk.range[r + 1][1])

\* C26: once every process has created its range, the ranges partition
\* [0, N) and both end points of every edge read on any process lie in
\* [0, N).
C26_DistributionCoversInput ==
    RangesCreated =>
        /\ RangesPartitionUpperBound
        /\ \A r \in Ranks : \A i \in 1 .. Len(chk.read[r]) :
              /\ chk.read[r][i][1] < UpperBound
              /\ chk.read[r][i][2] < UpperBound

\* the same when the vertex count ReadSize returned exceeds every vertex
\* of the input and some process read an edge
CoversWhenSizeIsExact ==
    (/\ RangesCreated
     /\ \E r \in Ranks : chk.read[r] # <<>>
     /\ \A r \in Ranks : \A i \in 1 .. Len(chk.read[r]) :
           chk.read[r][i][1] < chk.n[r] - 1 /\ chk.read[r][i][2] < chk.n[r] - 1)
        => \A r \in Ranks : \A i \in 1 .. Len(chk.read[r]) :
              chk.read[r][i][1] < UpperBound /\ chk.read[r][i][2] < UpperBound

(***************************************************************************)
(* REDISTRIBUTE_GRAPH (kagen/tools/postprocessor.h), from section 4.4, as  *)
(* run by GenerateUndirectedGNM and GenerateBA of the library facade on    *)
(* every process: each process takes a contiguous block of [0, n) as its   *)
(* vertex range and the edges are exchanged so that each one ends up at    *)
(* the owner of its tail.                                                  *)
(***************************************************************************)
\* the block of [0, n) a rank owns after redistribution
RedistributedRange(n, size, rank) == ComputeRange(n, size, rank)

\* the owner of a vertex, found by its position in equal blocks of n / size
FindOwnerEqualBlocks(n, size, v) == Min(v \div (IF n \div size = 0 THEN 1 ELSE n \div size), size - 1)

\* the rank whose block holds vertex v
FindOwner(n, size, v) ==
    CHOOSE rank \in 0 .. (size - 1) :
        RedistributedRange(n, size, rank)[1] <= v /\ v < RedistributedRange(n, size, rank)[2]

\* the edges a process may have generated: any tail, whoever owns it
PostEdges(n) == {<<tail, n - 1 - tail>> : tail \in 0 .. (n - 1)}

RECURSIVE ConcatFrom(_, _, _)
\* the messages sent to rank, in the order of the senders' ranks
ConcatFrom(sent, rank, q) ==
    IF q \notin DOMAIN sent THEN <<>>
    ELSE sent[q][rank] \o ConcatFrom(sent, rank, q + 1)

\* generated: per rank, the edge list its generator produced; edges: the
\* edge list it holds; range: its vertex range; sent: the messages of the
\* exchange, by sender and receiver
InitPost ==
    /\ \E n \in 1 .. MaxPostN, size \in 1 .. NumPE :
          \E generated \in [0 .. (size - 1) -> SeqsUpTo(PostEdges(n), MaxPostEdges)] :
              post = [n |-> n, size |-> size,
                      pc |-> [rank \in 0 .. (size - 1) |-> "generated"],
                      generated |-> generated,
                      edges |-> generated,
                      range |-> [rank \in 0 .. (size - 1) |-> NoRange],
                      sent |-> [rank \in 0 .. (size - 1) |-> [q \in 0 .. (size - 1) |-> <<>>]]]
    /\ GenIdle
    /\ conv = Idle
    /\ chunk = Idle
    /\ config = Idle
    /\ proc = Idle
    /\ filt = Idle /\ kagen = Idle /\ lib = Idle /\ chk = Idle

\* a process enters the step: it takes its block as vertex range and sends
\* every edge to the owner of its tail
PostSend ==
    \E rank \in DOMAIN post.pc :
        /\ post.pc[rank] = "generated"
        /\ post' = [post EXCEPT
                !.pc[rank] = "sent",
                !.range[rank] = RedistributedRange(post.n, post.size, rank),
                !.sent[rank] = [q \in DOMAIN post.pc |->
                                   SelectSeq(post.edges[rank],
                                             LAMBDA e : FindOwner(post.n, post.size, e[1]) = q)],
                !.edges[rank] = <<>>]
        /\ UNCHANGED <<genVars, convVars, chunkVars, facadeVars, filt, kagen, lib, chk>>

\* the exchange is blocking: a process leaves it with the edges every
\* process sent to it
PostReceive ==
    \E rank \in DOMAIN post.pc :
        /\ post.pc[rank] = "sent"
        /\ \A q \in DOMAIN post.pc : post.pc[q] # "generated"
        /\ post' = [post EXCEPT !.pc[rank] = "done",
                                !.edges[rank] = ConcatFrom(post.sent, rank, 0)]
        /\ UNCHANGED <<genVars, convVars, chunkVars, facadeVars, filt, kagen, lib, chk>>

NextPost == PostSend \/ PostReceive

SpecPost == InitPost /\ [][NextPost]_vars

PostDone == \A rank \in DOMAIN post.pc : post.pc[rank] = "done"

\* how many of the processes' edge lists entries are the edge e
HeldCount(lists, e) ==
    Cardinality({<<rank, i>> \in (DOMAIN lists) \X (1 .. MaxPostEdges * NumPE) :
                    i <= Len(lists[rank]) /\ lists[rank][i] = e})

\* C18: once every process has left REDISTRIBUTE_GRAPH, the vertex ranges
\* are intervals that start at 0 on rank 0, end at n on the last rank and
\* continue from rank to rank; every edge a process holds has its tail in
\* that process's range; and every generated edge is held, as often as it
\* was generated.
C18_RedistributedRanges ==
    PostDone =>
        /\ post.range[0][1] = 0
        /\ post.range[post.size - 1][2] = post.n
        /\ \A rank \in DOMAIN post.range :
              /\ post.range[rank][1] <= post.range[rank][2]
              /\ (rank + 1 \in DOMAIN post.range =>
                     post.range[rank][2] = post.range[rank + 1][1])
        /\ \A rank \in DOMAIN post.edges :
              \A i \in 1 .. Len(post.edges[rank]) :
                  /\ post.range[rank][1] <= post.edges[rank][i][1]
                  /\ post.edges[rank][i][1] < post.range[rank][2]
        /\ \A e \in PostEdges(post.n) :
              HeldCount(post.edges, e) = HeldCount(post.generated, e)

\* three vertices on two processes: rank 0 generated an edge with tail 2,
\* rank 1 one with tail 0, and each now holds the other's edge
C18_Witness ==
    /\ PostDone
    /\ post.n = 3
    /\ post.size = 2
    /\ post.generated[0] = <<<<2, 0>>>>
    /\ post.generated[1] = <<<<0, 2>>>>
    /\ post.edges[0] = <<<<0, 2>>>>
    /\ post.edges[1] = <<<<2, 0>>>>
====
